---- MODULE Spec2Model ----
(***************************************************************************)
(* fintrack: the portfolio accounting engine.                              *)
(*                                                                         *)
(*   storage.getHoldings      src/src/services/storageService.ts 66-105    *)
(*   storage.getTransactions  src/src/services/storageService.ts 47-52     *)
(*   storage.addTransaction   src/src/services/storageService.ts 54-59     *)
(*   calculatePeriodProfit    src/src/App.tsx 743-788                      *)
(*   refreshData              src/src/App.tsx 613-641                      *)
(*   handleAddTransaction     src/src/App.tsx 643-669                      *)
(*   totals, holding row      src/src/App.tsx 733-741, 962-964             *)
(*   fetchStockPrices         src/src/services/stockService.ts 11-84       *)
(*                                                                         *)
(* Money amounts (totalCost, avgPrice, realizedPnL, profit) are JavaScript *)
(* numbers; they are modelled as IEEE-754 doubles, every operation rounded *)
(* to the nearest double as the engine rounds it.  Quantities are positive *)
(* integers; prices are positive integers or the double 1e308, with which  *)
(* amounts overflow.  Instants (Date.getTime()) are counted in hours       *)
(* since 1970-01-01T00:00Z instead of milliseconds, and the local time     *)
(* zone of the browser is taken to be UTC.  A transaction date is the      *)
(* 'YYYY-MM-DD' string of the date input, modelled as <<year, month, day>>.*)
(***************************************************************************)
EXTENDS Integers, Sequences, FiniteSets, TLC

(***************************************************************************)
(* Bounds of the model.                                                    *)
(***************************************************************************)
MaxTx == 3

\* the longest array the price service answers with
MaxEntries == 2

\* the most refreshData calls that wait for prices at one time
MaxPending == 2

\* the most times Date.now() advances in a session
MaxTicks == 1

\* the most accounts kept in storage
MaxAccounts == 3

(***************************************************************************)
(* State.                                                                  *)
(***************************************************************************)
VARIABLES
    txStore,        \* localStorage['fintrack_transactions']
    clock,          \* Date.now(), in hours
    pc,             \* the function being executed, "idle" between calls
    idx,            \* position of forEach in the sorted list
    accountId,      \* getHoldings: its argument
    sorted,         \* getHoldings: sorted
    holdings,       \* getHoldings: holdings
    realizedPnL,    \* getHoldings: realizedPnL
    result,         \* getHoldings: the list returned
    transactions,   \* App: the transactions state
    months,         \* calculatePeriodProfit: its argument
    cutoff,         \* calculatePeriodProfit: cutoff
    sortedTxs,      \* calculatePeriodProfit: sortedTxs
    tempHoldings,   \* calculatePeriodProfit: tempHoldings
    totalProfit,    \* calculatePeriodProfit: totalProfit
    returned,       \* history: what the completed calls have returned
    accountStore,   \* localStorage['fintrack_accounts']
    activeAccount,  \* App: the activeAccount state
    appHoldings,    \* App: the holdings state
    prices,         \* App: the prices state
    isRefreshing,   \* App: the isRefreshing state
    fetchError,     \* App: the fetchError state
    lastUpdated,    \* App: the lastUpdated state
    pending,        \* refreshData calls suspended at await fetchStockPrices
    fetch,          \* fetchStockPrices: the call in progress or just returned
    accounts,       \* App: the accounts state
    activeTab,      \* App: the index in accounts of the object that activeAccount
                    \* is (Object.is), 0 when accounts holds no such object
    db,             \* server: the database finance.db
    response,       \* server: the last response sent
    log             \* history: the refreshData calls that fetched prices

appVars == <<accountStore, activeAccount, appHoldings, prices, isRefreshing,
             fetchError, lastUpdated, pending, accounts, activeTab>>

vars == <<txStore, clock, pc, idx, accountId, sorted, holdings, realizedPnL,
          result, transactions, months, cutoff, sortedTxs, tempHoldings,
          totalProfit, returned, appVars, fetch, db, response, log>>

replayVars == <<accountId, sorted, holdings, realizedPnL, result>>

periodVars == <<months, cutoff, sortedTxs, tempHoldings, totalProfit>>

(***************************************************************************)
(* Arithmetic on JavaScript numbers (IEEE-754 binary64, round to nearest,  *)
(* ties to even).                                                          *)
(*                                                                         *)
(* A natural number of any size is a sequence of limbs in base 2^14, the   *)
(* least significant first, without a leading zero limb; <<>> is 0.        *)
(***************************************************************************)
Abs(n) == IF n < 0 THEN -n ELSE n

Sign(n) == IF n > 0 THEN 1 ELSE IF n < 0 THEN -1 ELSE 0

Max(a, b) == IF a >= b THEN a ELSE b

Min(a, b) == IF a <= b THEN a ELSE b

\* the base of the limbs
Base == 16384

\* the bits of one limb
LimbBits == 14

\* the bits of the significand of a double
Precision == 53

\* integers of a magnitude below SmallMax are kept as one TLA+ integer
SmallMax == 1073741824

\* factors of a magnitude up to MaxFactor multiply within 31 bits
MaxFactor == 32767

RECURSIVE Trim(_)
Trim(x) ==
    IF x # <<>> /\ x[Len(x)] = 0 THEN Trim(SubSeq(x, 1, Len(x) - 1)) ELSE x

RECURSIVE BigOf(_)
BigOf(n) == IF n = 0 THEN <<>> ELSE <<n % Base>> \o BigOf(n \div Base)

RECURSIVE IntOf(_)
IntOf(x) == IF x = <<>> THEN 0 ELSE x[1] + Base * IntOf(Tail(x))

Limb(x, i) == IF i <= Len(x) THEN x[i] ELSE 0

RECURSIVE AddFrom(_, _, _, _)
AddFrom(x, y, i, carry) ==
    IF i > Len(x) /\ i > Len(y)
    THEN IF carry = 0 THEN <<>> ELSE <<carry>>
    ELSE LET s == Limb(x, i) + Limb(y, i) + carry
         IN  <<s % Base>> \o AddFrom(x, y, i + 1, s \div Base)

BigAdd(x, y) == AddFrom(x, y, 1, 0)

RECURSIVE SubFrom(_, _, _, _)
SubFrom(x, y, i, borrow) ==
    IF i > Len(x) THEN <<>>
    ELSE LET d == Limb(x, i) - Limb(y, i) - borrow
         IN  <<d % Base>> \o SubFrom(x, y, i + 1, IF d < 0 THEN 1 ELSE 0)

\* x - y for x >= y
BigSub(x, y) == Trim(SubFrom(x, y, 1, 0))

RECURSIVE CmpFrom(_, _, _)
CmpFrom(x, y, i) ==
    IF i = 0 THEN 0
    ELSE IF x[i] # y[i] THEN (IF x[i] < y[i] THEN -1 ELSE 1)
    ELSE CmpFrom(x, y, i - 1)

\* -1, 0 or 1 as x is below, equal to or above y
BigCmp(x, y) ==
    IF Len(x) # Len(y) THEN (IF Len(x) < Len(y) THEN -1 ELSE 1)
    ELSE CmpFrom(x, y, Len(x))

RECURSIVE MulFrom(_, _, _, _)
MulFrom(x, k, i, carry) ==
    IF i > Len(x) THEN BigOf(carry)
    ELSE LET p == x[i] * k + carry
         IN  <<p % Base>> \o MulFrom(x, k, i + 1, p \div Base)

\* x * k for 0 <= k < Base
MulSmall(x, k) == IF k = 0 THEN <<>> ELSE MulFrom(x, k, 1, 0)

RECURSIVE BigMul(_, _)
BigMul(x, y) ==
    IF x = <<>> \/ y = <<>> THEN <<>>
    ELSE BigAdd(MulSmall(x, y[1]),
                LET rest == BigMul(x, Tail(y))
                IN  IF rest = <<>> THEN <<>> ELSE <<0>> \o rest)

RECURSIVE DivFrom(_, _, _, _)
DivFrom(x, k, i, r) ==
    IF i = 0 THEN <<<<>>, r>>
    ELSE LET cur  == r * Base + x[i]
             rest == DivFrom(x, k, i - 1, cur % k)
         IN  <<rest[1] \o <<cur \div k>>, rest[2]>>

\* <<quotient, remainder>> of x by k for 0 < k < Base
DivSmall(x, k) ==
    LET qr == DivFrom(x, k, Len(x), 0) IN <<Trim(qr[1]), qr[2]>>

RECURSIVE Zeros(_)
Zeros(n) == IF n = 0 THEN <<>> ELSE <<0>> \o Zeros(n - 1)

\* x * 2^n
Shl(x, n) ==
    IF x = <<>> THEN <<>>
    ELSE Zeros(n \div LimbBits) \o MulSmall(x, 2 ^ (n % LimbBits))

\* floor(x / 2^n)
Shr(x, n) ==
    IF n \div LimbBits >= Len(x) THEN <<>>
    ELSE DivSmall(SubSeq(x, n \div LimbBits + 1, Len(x)), 2 ^ (n % LimbBits))[1]

RECURSIVE BitsOf(_)
BitsOf(n) == IF n = 0 THEN 0 ELSE 1 + BitsOf(n \div 2)

\* the number of bits of x
BitLen(x) ==
    IF x = <<>> THEN 0 ELSE (Len(x) - 1) * LimbBits + BitsOf(x[Len(x)])

RECURSIVE Digit(_, _, _, _)
\* the largest d of lo..hi with b * d <= r, when b * lo <= r
Digit(r, b, lo, hi) ==
    IF lo = hi THEN lo
    ELSE LET mid == (lo + hi + 1) \div 2
         IN  IF BigCmp(MulSmall(b, mid), r) <= 0 THEN Digit(r, b, mid, hi)
             ELSE Digit(r, b, lo, mid - 1)

RECURSIVE LongFrom(_, _, _, _)
LongFrom(x, b, i, r) ==
    IF i = 0 THEN <<<<>>, r>>
    ELSE LET cur  == Trim(<<x[i]>> \o r)
             d    == Digit(cur, b, 0, Base - 1)
             rest == LongFrom(x, b, i - 1, BigSub(cur, MulSmall(b, d)))
         IN  <<rest[1] \o <<d>>, rest[2]>>

\* <<quotient, remainder>> of a by b for b # 0
BigDiv(a, b) ==
    IF Len(b) = 1 THEN LET qr == DivSmall(a, b[1]) IN <<qr[1], BigOf(qr[2])>>
    ELSE LET qr == LongFrom(a, b, Len(a), <<>>) IN <<Trim(qr[1]), qr[2]>>

(***************************************************************************)
(* A number is                                                             *)
(*   <<n>>         the integer n, when its magnitude is below 2^30;        *)
(*   <<s, m, e>>   s * m * 2^e with s in {1, -1} and m of exactly 53 bits, *)
(*                 for every other finite value;                           *)
(*   <<1, 0>>, <<-1, 0>>, <<0, 0>>   Infinity, -Infinity and NaN.          *)
(* Every double has one form, so = on numbers is === on doubles other than *)
(* NaN.  -0 is not told from 0.  A result beyond the greatest double is    *)
(* Infinity; exponents stay far from the least double, so no operation     *)
(* underflows.                                                             *)
(***************************************************************************)
Num(n) == <<n>>

Zero == Num(0)

NaN == <<0, 0>>

Infinity(s) == <<s, 0>>

\* a JavaScript number that is neither Infinity nor NaN
Finite(x) == Len(x) # 2

\* the sign of a number other than NaN
Sgn(x) == IF Len(x) = 1 THEN Sign(x[1]) ELSE x[1]

\* <<s, n, e>> with x = s * n * 2^e, for a finite x
Exact(x) == IF Len(x) = 1 THEN <<Sign(x[1]), BigOf(Abs(x[1])), 0>> ELSE x

\* the bits of the exponent range: every double is below 2^MaxBits
MaxBits == 1024

\* the number s * n * 2^e, for n # 0 of at most 53 bits, or n = 2^53;
\* Infinity when it is 2^MaxBits or more
Canon(s, n, e) ==
    LET L == BitLen(n)
    IN  IF e >= 0 /\ L + e <= 30 THEN <<s * IntOf(Shl(n, e))>>
        ELSE IF e < 0 /\ L + e <= 30 /\ Shl(Shr(n, -e), -e) = n
        THEN <<s * IntOf(Shr(n, -e))>>
        ELSE IF L + e > MaxBits THEN Infinity(s)
        ELSE IF L >= Precision
        THEN <<s, Shr(n, L - Precision), e + (L - Precision)>>
        ELSE <<s, Shl(n, Precision - L), e - (Precision - L)>>

\* the double nearest to s * (n + f) * 2^e, where 0 <= f < 1 and f > 0
\* exactly if sticky; n has 55 bits or more when sticky
Round(s, n, e, sticky) ==
    IF n = <<>> THEN Zero
    ELSE LET L == BitLen(n)
         IN  IF L <= Precision THEN Canon(s, n, e)
             ELSE LET r   == L - Precision
                      q   == Shr(n, r)
                      c   == BigCmp(BigSub(n, Shl(q, r)), Shl(<<1>>, r - 1))
                      up  == c > 0 \/ (c = 0 /\ (sticky \/ q[1] % 2 = 1))
                  IN  Canon(s, IF up THEN BigAdd(q, <<1>>) ELSE q, e + r)

Neg(x) == IF Len(x) = 1 THEN <<-x[1]>>
          ELSE IF Len(x) = 3 THEN <<-x[1], x[2], x[3]>>
          ELSE <<-x[1], 0>>

\* x + y
Plus(x, y) ==
    IF Len(x) = 1 /\ Len(y) = 1
    THEN LET v == x[1] + y[1]
         IN  IF Abs(v) < SmallMax THEN <<v>>
             ELSE Round(Sign(v), BigOf(Abs(v)), 0, FALSE)
    ELSE IF x = NaN \/ y = NaN THEN NaN
    ELSE IF ~Finite(x) THEN (IF Finite(y) \/ x = y THEN x ELSE NaN)
    ELSE IF ~Finite(y) THEN y
    ELSE IF x = Zero THEN y
    ELSE IF y = Zero THEN x
    ELSE LET a  == Exact(x)
             b  == Exact(y)
             e  == Min(a[3], b[3])
             na == Shl(a[2], a[3] - e)
             nb == Shl(b[2], b[3] - e)
             c  == BigCmp(na, nb)
         IN  IF a[1] = b[1] THEN Round(a[1], BigAdd(na, nb), e, FALSE)
             ELSE IF c = 0 THEN Zero
             ELSE IF c > 0 THEN Round(a[1], BigSub(na, nb), e, FALSE)
             ELSE Round(b[1], BigSub(nb, na), e, FALSE)

\* x - y
Minus(x, y) == Plus(x, Neg(y))

\* x * y
Times(x, y) ==
    IF Len(x) = 1 /\ Len(y) = 1 /\ Abs(x[1]) <= MaxFactor
                                /\ Abs(y[1]) <= MaxFactor
    THEN <<x[1] * y[1]>>
    ELSE IF x = NaN \/ y = NaN THEN NaN
    ELSE IF ~Finite(x) \/ ~Finite(y)
    THEN (IF x = Zero \/ y = Zero THEN NaN ELSE Infinity(Sgn(x) * Sgn(y)))
    ELSE LET a == Exact(x)
             b == Exact(y)
         IN  Round(a[1] * b[1], BigMul(a[2], b[2]), a[3] + b[3], FALSE)

\* x / y
Over(x, y) ==
    IF x = NaN \/ y = NaN THEN NaN
    ELSE IF ~Finite(x) THEN (IF ~Finite(y) THEN NaN
                             ELSE Infinity(x[1] * (IF Sgn(y) < 0 THEN -1 ELSE 1)))
    ELSE IF ~Finite(y) THEN Zero
    ELSE IF y = Zero THEN (IF x = Zero THEN NaN ELSE Infinity(Sgn(x)))
    ELSE IF x = Zero THEN Zero
    ELSE IF Len(x) = 1 /\ Len(y) = 1 /\ Abs(x[1]) % Abs(y[1]) = 0
    THEN <<Sign(x[1]) * Sign(y[1]) * (Abs(x[1]) \div Abs(y[1]))>>
    ELSE LET a  == Exact(x)
             b  == Exact(y)
             k  == Max(0, Precision + 3 + BitLen(b[2]) - BitLen(a[2]))
             qr == BigDiv(Shl(a[2], k), b[2])
         IN  Round(a[1] * b[1], qr[1], a[3] - b[3] - k, qr[2] # <<>>)

\* x <= y
AtMost(x, y) == x # NaN /\ y # NaN /\ (x = y \/ Sgn(Minus(x, y)) < 0)

(***************************************************************************)
(* Dates.  new Date('YYYY-MM-DD').getTime() is midnight UTC of that day.   *)
(***************************************************************************)
HoursPerDay == 24

\* days from 1970-01-01 to the civil date y-m-d (proleptic Gregorian)
DaysFromCivil(y, m, d) ==
    LET yy  == IF m <= 2 THEN y - 1 ELSE y
        era == yy \div 400
        yoe == yy - era * 400
        mp  == IF m > 2 THEN m - 3 ELSE m + 9
        doy == (153 * mp + 2) \div 5 + d - 1
        doe == yoe * 365 + yoe \div 4 - yoe \div 100 + doy
    IN  era * 146097 + doe - 719468

\* the civil date <<y, m, d>> of a day number
CivilFromDays(z) ==
    LET zz  == z + 719468
        era == zz \div 146097
        doe == zz - era * 146097
        yoe == (doe - doe \div 1460 + doe \div 36524 - doe \div 146096) \div 365
        doy == doe - (365 * yoe + yoe \div 4 - yoe \div 100)
        mp  == (5 * doy + 2) \div 153
        d   == doy - (153 * mp + 2) \div 5 + 1
        m   == IF mp < 10 THEN mp + 3 ELSE mp - 9
        y   == yoe + era * 400
    IN  <<IF m <= 2 THEN y + 1 ELSE y, m, d>>

\* new Date(tx.date).getTime()
GetTime(date) == DaysFromCivil(date[1], date[2], date[3]) * HoursPerDay

\* the instant of hour h of the civil date
Instant(date, h) == GetTime(date) + h

(***************************************************************************)
(* Array.prototype.sort with a date comparator: a stable sort.             *)
(***************************************************************************)
Front(s) == SubSeq(s, 1, Len(s) - 1)

Last(s) == s[Len(s)]

RECURSIVE InsertAsc(_, _)
InsertAsc(s, x) ==
    IF s = <<>> \/ GetTime(Last(s).date) <= GetTime(x.date)
    THEN Append(s, x)
    ELSE Append(InsertAsc(Front(s), x), Last(s))

\* SortAsc that keeps the order it is handed
SortAsc_Unsorted(s) == s

\* [...a].sort((a, b) => time(a.date) - time(b.date))
RECURSIVE SortAsc(_)
SortAsc(s) == IF s = <<>> THEN <<>> ELSE InsertAsc(SortAsc(Front(s)), Last(s))

\* InsertDesc that puts a transaction before those of the same date
RECURSIVE InsertDesc_TiesReversed(_, _)
InsertDesc_TiesReversed(s, x) ==
    IF s = <<>> \/ GetTime(Last(s).date) > GetTime(x.date)
    THEN Append(s, x)
    ELSE Append(InsertDesc_TiesReversed(Front(s), x), Last(s))

RECURSIVE InsertDesc(_, _)
InsertDesc(s, x) ==
    IF s = <<>> \/ GetTime(Last(s).date) >= GetTime(x.date)
    THEN Append(s, x)
    ELSE Append(InsertDesc(Front(s), x), Last(s))

\* a.sort((a, b) => time(b.date) - time(a.date))
RECURSIVE SortDesc(_)
SortDesc(s) == IF s = <<>> THEN <<>> ELSE InsertDesc(SortDesc(Front(s)), Last(s))

\* String.prototype.toUpperCase on the strings of the model
ToUpperCase(str) ==
    CASE str = "tcs" -> "TCS"
      [] str = "infy" -> "INFY"
      [] OTHER -> str

(***************************************************************************)
(* storage: the transactions kept in localStorage.                         *)
(***************************************************************************)
\* GetTransactions without the filter on account_id
GetTransactions_AllAccounts(all, id) == SortDesc(all)

\* storage.getTransactions(accountId) over the stored list all
GetTransactions(all, id) ==
    LET OfAccount(t) == t.account_id = id
    IN  SortDesc(SelectSeq(all, OfAccount))

\* the record storage.addTransaction appends: { ...tx, id: Date.now() }
NewTx(tx, now) ==
    [id |-> now, account_id |-> tx.account_id, symbol |-> tx.symbol,
     type |-> tx.type, quantity |-> tx.quantity, price |-> tx.price,
     date |-> tx.date]

\* the record storage.saveAccount appends: { id: Date.now(), name }
NewAccount(name, now) == [id |-> now, name |-> name]

\* accounts.map(a => a.id === id ? { ...a, name } : a)
Renamed(accs, id, name) ==
    [n \in 1..Len(accs) |->
        IF accs[n].id = id THEN [accs[n] EXCEPT !.name = name] ELSE accs[n]]

\* accounts.filter(a => a.id !== id)
WithoutAccount(accs, id) == SelectSeq(accs, LAMBDA a : a.id # id)

\* WithoutAccountRows that filters on the id of the transaction
WithoutAccountRows_ById(all, id) == SelectSeq(all, LAMBDA t : t.id # id)

\* allTransactions.filter(t => t.account_id !== id)
WithoutAccountRows(all, id) == SelectSeq(all, LAMBDA t : t.account_id # id)

\* what storage.deleteTransaction(id) leaves of the stored list all
DeleteTransaction(all, id) == SelectSeq(all, LAMBDA t : t.id # id)

(***************************************************************************)
(* The replay of storage.getHoldings.                                      *)
(***************************************************************************)
Put(f, k, v) == [x \in DOMAIN f \cup {k} |-> IF x = k THEN v ELSE f[x]]

EmptyMap == [x \in {} |-> Zero]

\* { symbol, quantity: 0, totalCost: 0, avgPrice: 0, realizedPnL: 0 }
NewHolding(sym) ==
    [symbol |-> sym, quantity |-> 0, totalCost |-> Zero, avgPrice |-> Zero,
     realizedPnL |-> Zero]

\* BuyHolding with the blended price taken as the plain mean of two prices
BuyHolding_Unweighted(h, tx) ==
    LET quantity  == h.quantity + tx.quantity
        totalCost == Plus(h.totalCost, Times(Num(tx.quantity), tx.price))
    IN  [h EXCEPT !.quantity  = quantity,
                  !.totalCost = totalCost,
                  !.avgPrice  = IF h.quantity > 0
                                THEN Over(Plus(h.avgPrice, tx.price), Num(2))
                                ELSE tx.price]

\* BuyHolding that takes the bought units off the quantity
BuyHolding_Subtract(h, tx) ==
    LET quantity  == h.quantity - tx.quantity
        totalCost == Plus(h.totalCost, Times(Num(tx.quantity), tx.price))
    IN  [h EXCEPT !.quantity  = quantity,
                  !.totalCost = totalCost,
                  !.avgPrice  = IF quantity > 0
                                THEN Over(totalCost, Num(quantity))
                                ELSE Zero]

\* BuyHolding that divides whenever the quantity is not 0
BuyHolding_NoGuard(h, tx) ==
    LET quantity  == h.quantity + tx.quantity
        totalCost == Plus(h.totalCost, Times(Num(tx.quantity), tx.price))
    IN  [h EXCEPT !.quantity  = quantity,
                  !.totalCost = totalCost,
                  !.avgPrice  = IF quantity # 0
                                THEN Over(totalCost, Num(quantity))
                                ELSE Zero]

\* the BUY branch on the holding h
BuyHolding(h, tx) ==
    LET quantity  == h.quantity + tx.quantity
        totalCost == Plus(h.totalCost, Times(Num(tx.quantity), tx.price))
    IN  [h EXCEPT !.quantity  = quantity,
                  !.totalCost = totalCost,
                  !.avgPrice  = IF quantity > 0
                                THEN Over(totalCost, Num(quantity))
                                ELSE Zero]

\* costOfSold = tx.quantity * h.avgPrice
CostOfSold(h, tx) == Times(Num(tx.quantity), h.avgPrice)

\* SellGain with the cost of one unit instead of the cost of the units sold
SellGain_UnitCost(h, tx) == Minus(Times(Num(tx.quantity), tx.price), h.avgPrice)

\* sellValue - costOfSold, the amount a SELL adds to realizedPnL[tx.symbol]
SellGain(h, tx) == Minus(Times(Num(tx.quantity), tx.price), CostOfSold(h, tx))

\* SellHolding that leaves totalCost alone on a partial sale
SellHolding_KeepCost(h, tx) ==
    LET quantity == h.quantity - tx.quantity
    IN  IF quantity <= 0
        THEN [h EXCEPT !.quantity = quantity, !.totalCost = Zero,
                       !.avgPrice = Zero]
        ELSE [h EXCEPT !.quantity = quantity]

\* SellHolding that resets the cost basis only when quantity < 0
SellHolding_StrictReset(h, tx) ==
    LET quantity == h.quantity - tx.quantity
    IN  IF quantity < 0
        THEN [h EXCEPT !.quantity = quantity, !.totalCost = Zero,
                       !.avgPrice = Zero]
        ELSE [h EXCEPT !.quantity = quantity,
                       !.totalCost = Minus(h.totalCost, CostOfSold(h, tx))]

\* SellHolding that takes the proceeds off totalCost and averages again
SellHolding_Proceeds(h, tx) ==
    LET quantity  == h.quantity - tx.quantity
        totalCost == Minus(h.totalCost, Times(Num(tx.quantity), tx.price))
    IN  IF quantity <= 0
        THEN [h EXCEPT !.quantity = quantity, !.totalCost = Zero,
                       !.avgPrice = Zero]
        ELSE [h EXCEPT !.quantity = quantity, !.totalCost = totalCost,
                       !.avgPrice = Over(totalCost, Num(quantity))]

\* the SELL branch on the holding h
SellHolding(h, tx) ==
    LET quantity == h.quantity - tx.quantity
    IN  IF quantity <= 0
        THEN [h EXCEPT !.quantity = quantity, !.totalCost = Zero,
                       !.avgPrice = Zero]
        ELSE [h EXCEPT !.quantity = quantity,
                       !.totalCost = Minus(h.totalCost, CostOfSold(h, tx))]

\* holdings[tx.symbol] once the entry is ensured
HoldingOf(hs, sym) == IF sym \in DOMAIN hs THEN hs[sym] ELSE NewHolding(sym)

\* realizedPnL[tx.symbol] once the entry is ensured
RealizedOf(rp, sym) == IF sym \in DOMAIN rp THEN rp[sym] ELSE Zero

\* one iteration of sorted.forEach on the holdings map
ReplayHoldings(hs, tx) ==
    LET h == HoldingOf(hs, tx.symbol)
    IN  Put(hs, tx.symbol,
            IF tx.type = "BUY" THEN BuyHolding(h, tx) ELSE SellHolding(h, tx))

\* one iteration of sorted.forEach on the realizedPnL map
ReplayRealized(hs, rp, tx) ==
    LET h == HoldingOf(hs, tx.symbol)
        r == RealizedOf(rp, tx.symbol)
    IN  Put(rp, tx.symbol,
            IF tx.type = "BUY" THEN r ELSE Plus(r, SellGain(h, tx)))

\* holdings after sorted.forEach has run over the whole of s
RECURSIVE ReplayAll(_)
ReplayAll(s) ==
    IF s = <<>> THEN EmptyMap ELSE ReplayHoldings(ReplayAll(Front(s)), Last(s))

\* realizedPnL after sorted.forEach has run over the whole of s
RECURSIVE ReplayedRealized(_)
ReplayedRealized(s) ==
    IF s = <<>> THEN EmptyMap
    ELSE ReplayRealized(ReplayAll(Front(s)), ReplayedRealized(Front(s)), Last(s))

\* the array index that a property name is, on the strings of the model:
\* the canonical decimal form of an integer from 0 to 2^32 - 2; -1 for a
\* name that is none
ArrayIndex(key) ==
    CASE key = "500325" -> 500325
      [] key = "532540" -> 532540
      [] OTHER -> -1

\* the symbols of a sequence of transactions in order of first appearance:
\* the order in which holdings[symbol] is created
RECURSIVE Creation(_)
Creation(s) ==
    IF s = <<>> THEN <<>>
    ELSE LET k == Creation(Front(s))
         IN  IF \E n \in 1..Len(k) : k[n] = Last(s).symbol
             THEN k ELSE Append(k, Last(s).symbol)

\* the keys k, all array indices and in ascending order, with the key x
RECURSIVE InsertIndex(_, _)
InsertIndex(k, x) ==
    IF k = <<>> \/ ArrayIndex(Last(k)) < ArrayIndex(x) THEN Append(k, x)
    ELSE Append(InsertIndex(Front(k), x), Last(k))

RECURSIVE IndexOrder(_)
IndexOrder(k) ==
    IF k = <<>> THEN <<>> ELSE InsertIndex(IndexOrder(Front(k)), Last(k))

\* the order in which Object.values lists the holdings of the symbols of s:
\* array indices first, in ascending order, then the other names in the
\* order of their creation
KeyOrder(s) ==
    LET k == Creation(s)
    IN  IndexOrder(SelectSeq(k, LAMBDA x : ArrayIndex(x) >= 0))
        \o SelectSeq(k, LAMBDA x : ArrayIndex(x) < 0)

\* x || 0 for a number x: NaN and 0 are falsy
OrZero(x) == IF x = NaN THEN Zero ELSE x

\* Projection that copies realizedPnL[h.symbol] without || 0
Projection_Copied(hs, rp, keys) ==
    LET values   == [n \in 1..Len(keys) |-> hs[keys[n]]]
        Shown(h) == h.quantity > 0 \/ rp[h.symbol] # Zero
        kept     == SelectSeq(values, Shown)
    IN  [n \in 1..Len(kept) |->
           [kept[n] EXCEPT !.realizedPnL = rp[kept[n].symbol]]]

\* Projection that shows open positions only
Projection_OpenOnly(hs, rp, keys) ==
    LET values   == [n \in 1..Len(keys) |-> hs[keys[n]]]
        Shown(h) == h.quantity > 0
        kept     == SelectSeq(values, Shown)
    IN  [n \in 1..Len(kept) |->
           [kept[n] EXCEPT !.realizedPnL = OrZero(rp[kept[n].symbol])]]

\* Object.values(holdings).filter(...).map(h => ({ ...h, realizedPnL:
\* realizedPnL[h.symbol] || 0 }))
Projection(hs, rp, keys) ==
    LET values   == [n \in 1..Len(keys) |-> hs[keys[n]]]
        Shown(h) == h.quantity > 0 \/ rp[h.symbol] # Zero
        kept     == SelectSeq(values, Shown)
    IN  [n \in 1..Len(kept) |->
           [kept[n] EXCEPT !.realizedPnL = OrZero(rp[kept[n].symbol])]]

\* storage.getHoldings(id) over the stored list all, as one value
GetHoldings(all, id) ==
    LET s == SortAsc(GetTransactions(all, id))
    IN  Projection(ReplayAll(s), ReplayedRealized(s), KeyOrder(s))

(***************************************************************************)
(* The server: GET /api/holdings/:accountId.  Its divisions are unguarded, *)
(* so its numbers may be Infinity, -Infinity or NaN.                       *)
(***************************************************************************)
\* SELECT * FROM transactions WHERE account_id = ?, the table holding the
\* ledger all in the order of insertion
ServerRows(all, id) == SelectSeq(all, LAMBDA t : t.account_id = id)

\* { symbol: tx.symbol, quantity: 0, totalCost: 0, avgPrice: 0 }
ServerNewHolding(sym) ==
    [symbol |-> sym, quantity |-> 0, totalCost |-> Zero, avgPrice |-> Zero]

\* the BUY branch of the server on the holding h
ServerBuy(h, tx) ==
    LET quantity  == h.quantity + tx.quantity
        totalCost == Plus(h.totalCost, Times(Num(tx.quantity), tx.price))
    IN  [h EXCEPT !.quantity  = quantity,
                  !.totalCost = totalCost,
                  !.avgPrice  = Over(totalCost, Num(quantity))]

\* costOfSold = tx.quantity * holdings[tx.symbol].avgPrice
ServerCostOfSold(h, tx) == Times(Num(tx.quantity), h.avgPrice)

\* sellValue - costOfSold
ServerGain(h, tx) ==
    Minus(Times(Num(tx.quantity), tx.price), ServerCostOfSold(h, tx))

\* ServerSell that leaves totalCost alone
ServerSell_KeepCost(h, tx) == [h EXCEPT !.quantity = h.quantity - tx.quantity]

\* the else (SELL) branch of the server on the holding h
ServerSell(h, tx) ==
    [h EXCEPT !.quantity  = h.quantity - tx.quantity,
              !.totalCost = Minus(h.totalCost, ServerCostOfSold(h, tx))]

ServerHoldingOf(hs, sym) ==
    IF sym \in DOMAIN hs THEN hs[sym] ELSE ServerNewHolding(sym)

\* one iteration of transactions.forEach on the holdings object
ServerHoldings(hs, tx) ==
    LET h == ServerHoldingOf(hs, tx.symbol)
    IN  Put(hs, tx.symbol,
            IF tx.type = "BUY" THEN ServerBuy(h, tx) ELSE ServerSell(h, tx))

\* one iteration of transactions.forEach on the realizedPnL object
ServerRealized(hs, rp, tx) ==
    LET h == ServerHoldingOf(hs, tx.symbol)
        r == RealizedOf(rp, tx.symbol)
    IN  Put(rp, tx.symbol,
            IF tx.type = "BUY" THEN r ELSE Plus(r, ServerGain(h, tx)))

\* holdings after transactions.forEach has run over the whole of s
RECURSIVE ServerReplayAll(_)
ServerReplayAll(s) ==
    IF s = <<>> THEN EmptyMap
    ELSE ServerHoldings(ServerReplayAll(Front(s)), Last(s))

\* realizedPnL after transactions.forEach has run over the whole of s
RECURSIVE ServerReplayedRealized(_)
ServerReplayedRealized(s) ==
    IF s = <<>> THEN EmptyMap
    ELSE ServerRealized(ServerReplayAll(Front(s)),
                        ServerReplayedRealized(Front(s)), Last(s))

\* Object.values(holdings).filter(...).map(...)
ServerProjection(hs, rp, keys) ==
    LET values   == [n \in 1..Len(keys) |-> hs[keys[n]]]
        Shown(h) == h.quantity > 0 \/ rp[h.symbol] # Zero
        kept     == SelectSeq(values, Shown)
    IN  [n \in 1..Len(kept) |->
           [symbol |-> kept[n].symbol, quantity |-> kept[n].quantity,
            totalCost |-> kept[n].totalCost, avgPrice |-> kept[n].avgPrice,
            realizedPnL |-> OrZero(rp[kept[n].symbol])]]

\* the result handed to res.json for the account id
ServerGetHoldings(all, id) ==
    LET s == ServerRows(all, id)
    IN  ServerProjection(ServerReplayAll(s), ServerReplayedRealized(s),
                         KeyOrder(s))

(***************************************************************************)
(* The server's database finance.db: the rows of its two tables in the     *)
(* order of their ids, and sqlite_sequence, the greatest id each           *)
(* AUTOINCREMENT table has given out.                                      *)
(***************************************************************************)
\* new Database("finance.db") on a new file, after CREATE TABLE IF NOT EXISTS
NewDatabase ==
    [accounts |-> <<>>, transactions |-> <<>>,
     sqlite_sequence |-> [accounts |-> 0, transactions |-> 0]]

\* SELECT id FROM accounts WHERE name = ?: the rows of that name
AccountsNamed(d, name) == SelectSeq(d.accounts, LAMBDA a : a.name = name)

\* INSERT OR IGNORE INTO accounts (name) VALUES (?): name is UNIQUE, and the
\* insert takes the next id of the sequence even when it is ignored
InsertOrIgnore(d, name) ==
    LET id == d.sqlite_sequence.accounts + 1
    IN  IF AccountsNamed(d, name) # <<>>
        THEN [d EXCEPT !.sqlite_sequence.accounts = id]
        ELSE [d EXCEPT !.accounts = Append(@, [id |-> id, name |-> name]),
                       !.sqlite_sequence.accounts = id]

\* UPDATE transactions SET account_id = ? WHERE account_id = ?
MoveTransactions(rows, to, from) ==
    [n \in 1..Len(rows) |->
        IF rows[n].account_id = from THEN [rows[n] EXCEPT !.account_id = to]
        ELSE rows[n]]

\* if the account called name exists: its transactions go to the account
\* called target and the account is deleted
MergeAccount(d, name, target) ==
    LET old == AccountsNamed(d, name)
        to  == AccountsNamed(d, target)[1].id
    IN  IF old = <<>> THEN d
        ELSE [d EXCEPT
                !.transactions = MoveTransactions(@, to, old[1].id),
                !.accounts = SelectSeq(@, LAMBDA a : a.id # old[1].id)]

\* DELETE FROM accounts WHERE name NOT IN ('Vaibhav', 'Neelam'): a FOREIGN
\* KEY error when a transaction refers to such an account; the catch of the
\* migration logs it and the accounts stay
DeleteOtherAccounts(d) ==
    LET Other(a) == a.name \notin {"Vaibhav", "Neelam"}
        others   == {d.accounts[n].id : n \in {m \in 1..Len(d.accounts) :
                                                  Other(d.accounts[m])}}
    IN  IF \E n \in 1..Len(d.transactions) :
              d.transactions[n].account_id \in others
        THEN d
        ELSE [d EXCEPT !.accounts = SelectSeq(@, LAMBDA a : ~Other(a))]

\* the start of the server on the database file: the migration
StartUp(file) ==
    LET inserted == InsertOrIgnore(InsertOrIgnore(file, "Vaibhav"), "Neelam")
        merged   == MergeAccount(MergeAccount(inserted, "Account 1", "Vaibhav"),
                                 "Account 2", "Neelam")
    IN  DeleteOtherAccounts(merged)

\* the row INSERT INTO transactions writes for the body of a POST
NewRow(d, body) ==
    [id |-> d.sqlite_sequence.transactions + 1, account_id |-> body.accountId,
     symbol |-> ToUpperCase(body.symbol), type |-> body.type,
     quantity |-> body.quantity, price |-> body.price, date |-> body.date]

\* INSERT INTO transactions ...: the FOREIGN KEY wants the account to exist
CanInsert(d, body) ==
    \E n \in 1..Len(d.accounts) : d.accounts[n].id = body.accountId

InsertRow(d, body) ==
    [d EXCEPT !.transactions = Append(@, NewRow(d, body)),
              !.sqlite_sequence.transactions = @ + 1]

\* DELETE FROM transactions WHERE id = ?
DeleteRow(d, id) ==
    [d EXCEPT !.transactions = SelectSeq(@, LAMBDA r : r.id # id)]

\* JSON.stringify of a number: Infinity, -Infinity and NaN are written null
Null == <<>>

Json(x) == IF Finite(x) THEN x ELSE Null

\* the body res.json(result) writes for the holdings
JsonHoldings(rows) ==
    [n \in 1..Len(rows) |->
        [symbol |-> rows[n].symbol, quantity |-> rows[n].quantity,
         totalCost |-> Json(rows[n].totalCost),
         avgPrice |-> Json(rows[n].avgPrice),
         realizedPnL |-> Json(rows[n].realizedPnL)]]

(***************************************************************************)
(* calculatePeriodProfit.                                                  *)
(***************************************************************************)
\* cutoff = new Date(); cutoff.setMonth(now.getMonth() - months)
\* (setMonth keeps the day of the month and the time of day; a month out of
\* 0..11 moves the year, a day past the end of the month runs into the next)
Cutoff(now, m) ==
    LET c   == CivilFromDays(now \div HoursPerDay)
        h   == now % HoursPerDay
        mm  == (c[2] - 1) - m
        ym  == c[1] + (mm \div 12)
        mn  == mm % 12
        day == DaysFromCivil(ym, mn + 1, 1) + (c[3] - 1)
    IN  day * HoursPerDay + h

\* { quantity: 0, totalCost: 0, avgPrice: 0 }
NewTemp == [quantity |-> 0, totalCost |-> Zero, avgPrice |-> Zero]

TempOf(th, sym) == IF sym \in DOMAIN th THEN th[sym] ELSE NewTemp

\* profit = tx.quantity * (tx.price - h.avgPrice)
Profit(h, tx) == Times(Num(tx.quantity), Minus(tx.price, h.avgPrice))

\* new Date(tx.date) >= cutoff
InPeriod(tx, cut) == GetTime(tx.date) >= cut

\* TempBuy that divides whatever the quantity is
TempBuy_Unguarded(h, tx) ==
    LET quantity  == h.quantity + tx.quantity
        totalCost == Plus(h.totalCost, Times(Num(tx.quantity), tx.price))
    IN  [quantity  |-> quantity,
         totalCost |-> totalCost,
         avgPrice  |-> Over(totalCost, Num(quantity))]

\* the BUY branch on the temporary holding h
TempBuy(h, tx) ==
    LET quantity  == h.quantity + tx.quantity
        totalCost == Plus(h.totalCost, Times(Num(tx.quantity), tx.price))
    IN  [quantity  |-> quantity,
         totalCost |-> totalCost,
         avgPrice  |-> IF quantity > 0
                       THEN Over(totalCost, Num(quantity))
                       ELSE Zero]

\* TempSell that never resets the cost basis
TempSell_NoReset(h, tx) ==
    LET costOfSold == Times(Num(tx.quantity), h.avgPrice)
    IN  [quantity  |-> h.quantity - tx.quantity,
         totalCost |-> Minus(h.totalCost, costOfSold),
         avgPrice  |-> h.avgPrice]

\* the SELL branch on the temporary holding h
TempSell(h, tx) ==
    LET costOfSold == Times(Num(tx.quantity), h.avgPrice)
        quantity   == h.quantity - tx.quantity
    IN  IF quantity <= 0
        THEN [quantity |-> quantity, totalCost |-> Zero, avgPrice |-> Zero]
        ELSE [quantity  |-> quantity,
              totalCost |-> Minus(h.totalCost, costOfSold),
              avgPrice  |-> h.avgPrice]

\* PeriodHoldings that skips the transactions dated before the cutoff
PeriodHoldings_WindowOnly(th, tx) ==
    LET h == TempOf(th, tx.symbol)
    IN  IF InPeriod(tx, cutoff)
        THEN Put(th, tx.symbol,
                 IF tx.type = "BUY" THEN TempBuy(h, tx) ELSE TempSell(h, tx))
        ELSE th

\* one iteration of sortedTxs.forEach on tempHoldings
PeriodHoldings(th, tx) ==
    LET h == TempOf(th, tx.symbol)
    IN  Put(th, tx.symbol,
            IF tx.type = "BUY" THEN TempBuy(h, tx) ELSE TempSell(h, tx))

\* one iteration of sortedTxs.forEach on totalProfit
PeriodTotal(th, total, tx, cut) ==
    IF tx.type # "BUY" /\ InPeriod(tx, cut)
    THEN Plus(total, Profit(TempOf(th, tx.symbol), tx))
    ELSE total

(***************************************************************************)
(* Inputs of the model.                                                    *)
(***************************************************************************)
Symbols == {"TCS", "INFY"}

\* <<type, quantity, price>> of the form
Trades ==
    {<<"BUY", 10, 100>>, <<"BUY", 5, 200>>, <<"BUY", 4, 150>>,
     <<"SELL", 4, 150>>, <<"SELL", 10, 150>>, <<"SELL", 5, 200>>}

Dates == {<<2026, 1, 10>>, <<2026, 2, 20>>}

\* INITIAL_ACCOUNTS
INITIAL_ACCOUNTS ==
    <<[id |-> 1, name |-> "Vaibhav"], [id |-> 2, name |-> "Neelam"]>>

Accounts == {INITIAL_ACCOUNTS[n].id : n \in 1..Len(INITIAL_ACCOUNTS)}

FormInput(a, s, trade, d) ==
    [account_id |-> a, symbol |-> s, type |-> trade[1], quantity |-> trade[2],
     price |-> Num(trade[3]), date |-> d]

\* the price 1e308 of the form: ten units of it are beyond every double
LargePrice == <<1, <<2208, 6063, 3896, 1139>>, 971>>

\* the input of the form with the price 1e308
LargeInput(a, s, type, q, d) ==
    [account_id |-> a, symbol |-> s, type |-> type, quantity |-> q,
     price |-> LargePrice, date |-> d]

\* what handleAddTransaction hands to storage.addTransaction
Inputs ==
    {FormInput(1, "TCS", trade, d) : trade \in Trades, d \in Dates}
    \cup {FormInput(1, "INFY", trade, d) :
            trade \in {<<"BUY", 10, 100>>, <<"SELL", 4, 150>>, <<"SELL", 10, 150>>},
            d \in Dates}
    \cup {FormInput(2, "TCS", <<"BUY", 10, 100>>, <<2026, 1, 10>>)}

\* Date.now() when the session starts
StartClock == Instant(<<2026, 10, 30>>, 12)

\* a BUY older than every window or inside the six months, a later BUY at
\* another price, and SELLs before, on and after the cutoffs
PeriodInputs ==
    {FormInput(1, "TCS", <<"BUY", 10, 100>>, d) :
        d \in {<<2025, 1, 15>>, <<2026, 6, 1>>}}
    \cup {FormInput(1, "TCS", <<"BUY", 4, 150>>, d) :
            d \in {<<2026, 6, 1>>, <<2026, 10, 15>>}}
    \cup {FormInput(1, "TCS", <<"SELL", 4, 150>>, d) :
            d \in {<<2026, 6, 1>>, <<2026, 9, 30>>, <<2026, 10, 15>>}}
    \cup {FormInput(1, "TCS", <<"SELL", 10, 100>>, d) :
            d \in {<<2026, 9, 30>>, <<2026, 10, 15>>}}

\* the instants at which the summary is rendered
PeriodClocks ==
    {Instant(<<2026, 10, 30>>, 0), Instant(<<2026, 10, 30>>, 12),
     Instant(<<2026, 10, 31>>, 12)}

\* the windows of the summary cards: profit1M, profit6M, profit1Y
Windows == {1, 6, 12}

\* the ledger left by storing the inputs f[1], f[2], ... at the instant t
Stored(f, t) == [k \in DOMAIN f |-> NewTx(f[k], t)]

(***************************************************************************)
(* States between calls, and the initial states.                           *)
(***************************************************************************)
NoReplay ==
    /\ accountId = 0
    /\ sorted = <<>>
    /\ holdings = EmptyMap
    /\ realizedPnL = EmptyMap
    /\ result = <<>>

NoPeriod ==
    /\ months = 0
    /\ cutoff = 0
    /\ sortedTxs = <<>>
    /\ tempHoldings = EmptyMap
    /\ totalProfit = Zero

\* a value that may be missing (null, undefined): None or Some(x)
None == <<>>

Some(x) == <<x>>

Value(o) == o[1]

\* no call has returned yet
NoneReturned == [holdings |-> None, profit |-> [m \in Windows |-> None]]

\* no refreshData call has fetched prices yet
NoLog == [newest |-> None, empty |-> FALSE]

\* fetchStockPrices is not being called
NoFetch ==
    [stage |-> "none", symbols |-> <<>>, called |-> FALSE,
     outcome |-> [kind |-> "none", items |-> <<>>], raised |-> FALSE,
     value |-> EmptyMap]

\* the App before its first refresh: the values given to useState
NoApp ==
    /\ accountStore = INITIAL_ACCOUNTS
    /\ accounts = INITIAL_ACCOUNTS
    /\ activeAccount = INITIAL_ACCOUNTS[1]
    /\ activeTab = 1
    /\ appHoldings = <<>>
    /\ prices = EmptyMap
    /\ isRefreshing = FALSE
    /\ fetchError = "null"
    /\ lastUpdated = None
    /\ pending = <<>>

Init ==
    /\ txStore = <<>>
    /\ clock = StartClock
    /\ pc = "idle"
    /\ idx = 0
    /\ transactions = <<>>
    /\ NoReplay
    /\ NoPeriod
    /\ returned = NoneReturned
    /\ db = StartUp(NewDatabase)
    /\ response = None
    /\ log = NoLog
    /\ fetch = NoFetch
    /\ NoApp

(***************************************************************************)
(* storage.addTransaction                                                  *)
(***************************************************************************)
AddTransaction(tx) ==
    /\ pc = "idle"
    /\ Len(txStore) < MaxTx
    /\ txStore' = Append(txStore, NewTx(tx, clock))
    /\ UNCHANGED <<clock, pc, idx, transactions, replayVars, periodVars>>

(***************************************************************************)
(* storage.getHoldings, one forEach iteration per step.                    *)
(***************************************************************************)
GetHoldingsCall(id) ==
    /\ pc = "idle"
    /\ pc' = "getHoldings"
    /\ accountId' = id
    /\ sorted' = SortAsc(GetTransactions(txStore, id))
    /\ holdings' = EmptyMap
    /\ realizedPnL' = EmptyMap
    /\ idx' = 1
    /\ UNCHANGED <<txStore, clock, result, transactions, periodVars>>

GetHoldingsStep ==
    /\ pc = "getHoldings"
    /\ idx <= Len(sorted)
    /\ holdings' = ReplayHoldings(holdings, sorted[idx])
    /\ realizedPnL' = ReplayRealized(holdings, realizedPnL, sorted[idx])
    /\ idx' = idx + 1
    /\ UNCHANGED <<txStore, clock, pc, accountId, sorted, result, transactions,
                   periodVars>>

GetHoldingsReturn ==
    /\ pc = "getHoldings"
    /\ idx > Len(sorted)
    /\ result' = Projection(holdings, realizedPnL, KeyOrder(sorted))
    /\ pc' = "getHoldingsReturned"
    /\ UNCHANGED <<txStore, clock, idx, accountId, sorted, holdings,
                   realizedPnL, transactions, periodVars>>

\* the call is over: its locals are gone
GetHoldingsExit ==
    /\ pc = "getHoldingsReturned"
    /\ pc' = "idle"
    /\ idx' = 0
    /\ accountId' = 0
    /\ sorted' = <<>>
    /\ holdings' = EmptyMap
    /\ realizedPnL' = EmptyMap
    /\ result' = <<>>
    /\ UNCHANGED <<txStore, clock, transactions, periodVars>>

(***************************************************************************)
(* calculatePeriodProfit, one forEach iteration per step.                  *)
(***************************************************************************)
\* FreshTotal that starts from the total of an earlier call
FreshTotal_Carried ==
    LET done == {m \in Windows : returned.profit[m] # None}
    IN  IF done = {} THEN Zero
        ELSE Value(returned.profit[CHOOSE m \in done : TRUE])

\* let totalProfit = 0
FreshTotal == Zero

\* GivenAfterSort of a sort that works on the list itself
GivenAfterSort_InPlace(s) == SortAsc(s)

\* the list s handed to [...s].sort(...), once the sort is done
GivenAfterSort(s) == s

CalculatePeriodProfitCall(m) ==
    /\ pc = "idle"
    /\ pc' = "calculatePeriodProfit"
    /\ months' = m
    /\ cutoff' = Cutoff(clock, m)
    /\ totalProfit' = FreshTotal
    /\ tempHoldings' = EmptyMap
    /\ sortedTxs' = SortAsc(transactions)
    /\ transactions' = GivenAfterSort(transactions)
    /\ idx' = 1
    /\ UNCHANGED <<txStore, clock, replayVars>>

CalculatePeriodProfitStep ==
    /\ pc = "calculatePeriodProfit"
    /\ idx <= Len(sortedTxs)
    /\ tempHoldings' = PeriodHoldings(tempHoldings, sortedTxs[idx])
    /\ totalProfit' = PeriodTotal(tempHoldings, totalProfit, sortedTxs[idx], cutoff)
    /\ idx' = idx + 1
    /\ UNCHANGED <<txStore, clock, pc, transactions, months, cutoff, sortedTxs,
                   replayVars>>

CalculatePeriodProfitReturn ==
    /\ pc = "calculatePeriodProfit"
    /\ idx > Len(sortedTxs)
    /\ pc' = "calculatePeriodProfitReturned"
    /\ UNCHANGED <<txStore, clock, idx, transactions, periodVars, replayVars>>

\* the call is over: its locals are gone
CalculatePeriodProfitExit ==
    /\ pc = "calculatePeriodProfitReturned"
    /\ pc' = "idle"
    /\ idx' = 0
    /\ months' = 0
    /\ cutoff' = 0
    /\ sortedTxs' = <<>>
    /\ tempHoldings' = EmptyMap
    /\ totalProfit' = Zero
    /\ UNCHANGED <<txStore, clock, transactions, replayVars>>

(***************************************************************************)
(* Specifications.                                                         *)
(***************************************************************************)
\* the state of the App component, the history and fetchStockPrices
sessionVars == <<returned, appVars, fetch, db, response, log>>

Next ==
    \/ \E tx \in Inputs : AddTransaction(tx) /\ UNCHANGED sessionVars
    \/ \E id \in Accounts : GetHoldingsCall(id) /\ UNCHANGED sessionVars
    \/ GetHoldingsStep /\ UNCHANGED sessionVars
    \/ GetHoldingsReturn /\ UNCHANGED sessionVars
    \/ GetHoldingsExit /\ UNCHANGED sessionVars

Spec == Init /\ [][Next]_vars

\* a ledger with amounts beyond the doubles and with a symbol that is an
\* array index: a position bought and sold at one price, at 100 or at
\* 1e308, a position sold at a gain, and the symbol 500325 bought after TCS
AmountSymbols == {"TCS", "500325"}

AmountInputs ==
    {FormInput(1, "TCS", trade, <<2026, 1, 10>>) :
        trade \in {<<"BUY", 10, 100>>, <<"SELL", 10, 100>>,
                   <<"SELL", 10, 150>>}}
    \cup {LargeInput(1, "TCS", type, 10, <<2026, 1, 10>>) :
            type \in {"BUY", "SELL"}}
    \cup {FormInput(1, "500325", <<"BUY", 10, 100>>, <<2026, 2, 20>>)}

NextAmounts ==
    \/ \E tx \in AmountInputs : AddTransaction(tx) /\ UNCHANGED sessionVars
    \/ GetHoldingsCall(1) /\ UNCHANGED sessionVars
    \/ GetHoldingsStep /\ UNCHANGED sessionVars
    \/ GetHoldingsReturn /\ UNCHANGED sessionVars
    \/ GetHoldingsExit /\ UNCHANGED sessionVars

SpecAmounts == Init /\ [][NextAmounts]_vars

NextPeriod ==
    \/ \E m \in Windows : CalculatePeriodProfitCall(m) /\ UNCHANGED sessionVars
    \/ CalculatePeriodProfitStep /\ UNCHANGED sessionVars
    \/ CalculatePeriodProfitReturn /\ UNCHANGED sessionVars
    \/ CalculatePeriodProfitExit /\ UNCHANGED sessionVars

(***************************************************************************)
(* A session that calls both functions on one stored ledger, as the App    *)
(* does at every render: getHoldings in refreshData, calculatePeriodProfit *)
(* for the three summary cards.  returned remembers what each call gave.   *)
(***************************************************************************)
CallDates == {<<2026, 3, 10>>, <<2026, 10, 20>>}

CallInputs ==
    {FormInput(1, "TCS", trade, <<2026, 3, 10>>) :
        trade \in {<<"BUY", 10, 100>>, <<"SELL", 4, 150>>}}
    \cup {FormInput(1, "TCS", <<"SELL", 10, 150>>, d) : d \in CallDates}
    \cup {FormInput(1, "INFY", trade, <<2026, 10, 20>>) :
            trade \in {<<"BUY", 10, 100>>, <<"SELL", 4, 150>>}}

NextCalls ==
    \/ GetHoldingsCall(activeAccount.id) /\ UNCHANGED sessionVars
    \/ GetHoldingsStep /\ UNCHANGED sessionVars
    \/ GetHoldingsReturn /\ UNCHANGED sessionVars
    \/ /\ GetHoldingsExit
       /\ returned' = [returned EXCEPT !.holdings = Some(result)]
       /\ UNCHANGED <<appVars, fetch, db, response, log>>
    \/ \E m \in Windows : CalculatePeriodProfitCall(m) /\ UNCHANGED sessionVars
    \/ CalculatePeriodProfitStep /\ UNCHANGED sessionVars
    \/ CalculatePeriodProfitReturn /\ UNCHANGED sessionVars
    \/ /\ CalculatePeriodProfitExit
       /\ returned' = [returned EXCEPT !.profit[months] = Some(totalProfit)]
       /\ UNCHANGED <<appVars, fetch, db, response, log>>

(***************************************************************************)
(* The same session for either account: the store holds transactions of    *)
(* both accounts and the account on screen is one of the two; transactions *)
(* is what refreshData has read for it.                                    *)
(***************************************************************************)
ViewInputs ==
    {FormInput(a, "TCS", trade, <<2026, 10, 20>>) :
        a \in Accounts, trade \in {<<"BUY", 10, 100>>, <<"SELL", 4, 150>>}}

(***************************************************************************)
(* The server: its routes over the database.  Each request is answered in  *)
(* one step; response is the last answer sent.                             *)
(***************************************************************************)
\* the body of a POST /api/transactions
Body(a, s, trade, d) ==
    [accountId |-> a, symbol |-> s, type |-> trade[1], quantity |-> trade[2],
     price |-> Num(trade[3]), date |-> d]

\* the bodies posted: account 3 exists only in a migrated database
ServerInputs ==
    {Body(1, "TCS", <<"BUY", 10, 100>>, d) : d \in Dates}
    \cup {Body(1, "TCS", <<"BUY", 5, 200>>, <<2026, 1, 10>>)}
    \cup {Body(1, "TCS", <<"SELL", 10, 150>>, <<2026, 2, 20>>)}
    \cup {Body(1, "infy", trade, <<2026, 2, 20>>) :
            trade \in {<<"BUY", 10, 100>>, <<"SELL", 10, 100>>}}
    \cup {Body(3, "TCS", <<"BUY", 10, 100>>, <<2026, 1, 10>>)}

\* the :accountId of the GET requests: Vaibhav in a new database, the third
\* account of a file written before the migration, and Vaibhav after it
ServerAccountIds == {1, 3, 4}

\* an id beyond every id a server started on a new file gives in the session
EarlierSeq == 2 * (MaxTx + 2)

\* the file of an earlier run of this server: transactions 1 .. EarlierSeq
\* were inserted and all but the last three deleted; the three are in date
\* order and without oversell, a position bought at two prices and closed by
\* one SELL
EarlierDatabase ==
    LET d == StartUp(NewDatabase)
        Row(k, trade) ==
            [id |-> EarlierSeq - 3 + k, account_id |-> 1, symbol |-> "TCS",
             type |-> trade[1], quantity |-> trade[2],
             price |-> Num(trade[3]),
             date |-> <<2026, 1, 10>>]
    IN  [d EXCEPT !.transactions = <<Row(1, <<"BUY", 5, 100>>),
                                     Row(2, <<"BUY", 10, 150>>),
                                     Row(3, <<"SELL", 15, 100>>)>>,
                  !.sqlite_sequence.transactions = EarlierSeq]

\* a file written before the migration: 'Account 1', 'Account 2' and an
\* account of another name had a transaction each, the last ones of
\* EarlierSeq inserted, and that of the third account is kept or deleted
LegacyDatabase(kids) ==
    LET Row(k, a) ==
            [id |-> EarlierSeq - 3 + k, account_id |-> a, symbol |-> "TCS",
             type |-> "BUY", quantity |-> 10, price |-> Num(100),
             date |-> <<2026, 1, 10>>]
    IN  [accounts |-> <<[id |-> 1, name |-> "Account 1"],
                        [id |-> 2, name |-> "Account 2"],
                        [id |-> 3, name |-> "Kids"]>>,
         transactions |-> <<Row(1, 1), Row(2, 2)>>
                          \o (IF kids THEN <<Row(3, 3)>> ELSE <<>>),
         sqlite_sequence |-> [accounts |-> 3, transactions |-> EarlierSeq]]

\* the files the server may find at its start
DatabaseFiles ==
    {NewDatabase, EarlierDatabase}
    \cup {LegacyDatabase(kids) : kids \in BOOLEAN}

\* the server has started on one of the files; the App is mounted on an
\* empty localStorage and nothing is in progress
InitServer ==
    /\ txStore = <<>>
    /\ clock = StartClock
    /\ pc = "idle"
    /\ idx = 0
    /\ transactions = <<>>
    /\ NoReplay
    /\ NoPeriod
    /\ returned = NoneReturned
    /\ db \in {StartUp(file) : file \in DatabaseFiles}
    /\ response = None
    /\ log = NoLog
    /\ fetch = NoFetch
    /\ NoApp

\* what the server leaves alone: the state of the client
clientVars == <<txStore, clock, pc, idx, transactions, replayVars, periodVars,
                returned, appVars, fetch, log>>

\* the answer to a request: res.json(body), or the error page of Express
Response(route, param, status, body) ==
    [route |-> route, param |-> param, status |-> status, body |-> body]

\* app.get("/api/accounts"): SELECT * FROM accounts
ServerAccountsRequest ==
    /\ response' = Some(Response("GET /api/accounts", 0, 200, db.accounts))
    /\ UNCHANGED <<db, clientVars>>

\* app.get("/api/holdings/:accountId")
ServerHoldingsRequest(id) ==
    /\ response' =
          Some(Response("GET /api/holdings/:accountId", id, 200,
                        JsonHoldings(ServerGetHoldings(db.transactions, id))))
    /\ UNCHANGED <<db, clientVars>>

\* app.get("/api/transactions/:accountId"): ... ORDER BY date DESC, rows of
\* one date in the order of their ids
ServerTransactionsRequest(id) ==
    /\ response' =
          Some(Response("GET /api/transactions/:accountId", id, 200,
                        SortDesc(ServerRows(db.transactions, id))))
    /\ UNCHANGED <<db, clientVars>>

\* the ids the table has given out since its sequence stood at 0 or at
\* EarlierSeq
Given(d) == d.sqlite_sequence.transactions % EarlierSeq

\* app.post("/api/transactions"): the row is inserted and { success: true }
\* answered, or the insert throws on the FOREIGN KEY and Express answers 500;
\* at most MaxTx ids are given
ServerPost(body) ==
    /\ Given(db) < MaxTx
    /\ IF CanInsert(db, body)
       THEN /\ db' = InsertRow(db, body)
            /\ response' = Some(Response("POST /api/transactions", 0, 200,
                                         [success |-> TRUE]))
       ELSE /\ db' = db
            /\ response' = Some(Response("POST /api/transactions", 0, 500,
                                         "FOREIGN KEY constraint failed"))
    /\ UNCHANGED clientVars

\* app.delete("/api/transactions/:id")
ServerDelete(id) ==
    /\ db' = DeleteRow(db, id)
    /\ response' = Some(Response("DELETE /api/transactions/:id", id, 200,
                                 [success |-> TRUE]))
    /\ UNCHANGED clientVars

\* the :id of the DELETE requests: the first row of the table, and an id no
\* row has
DeleteIds(d) ==
    {0} \cup (IF d.transactions = <<>> THEN {} ELSE {d.transactions[1].id})

NextServer ==
    \/ ServerAccountsRequest
    \/ \E id \in ServerAccountIds : ServerHoldingsRequest(id)
    \/ \E id \in ServerAccountIds : ServerTransactionsRequest(id)
    \/ \E body \in ServerInputs : ServerPost(body)
    \/ \E id \in DeleteIds(db) : ServerDelete(id)

SpecServer == InitServer /\ [][NextServer]_vars

(***************************************************************************)
(* fetchStockPrices.  The outcome of ai.models.generateContent is either a *)
(* rejection or a response text.  With A the JSON text of the array of the *)
(* items, the texts are                                                    *)
(*   "empty"      the empty text                                           *)
(*   "prose"      No prices found.                                         *)
(*   "array"      A                                                        *)
(*   "object"     {"data":A}                                               *)
(*   "fenced"     Here are the prices:\n```json\nA\n```                    *)
(*   "tagged"     Here are the prices [NSE]:\n```json\nA\n```              *)
(*   "twoArrays"  A1\nand also\nA2, the arrays of the 1st and 2nd item     *)
(* An item is null or an object whose symbol and price are <<kind, value>>;*)
(* its JSON text holds no bracket.  A text is a sequence of parts: prose,  *)
(* a tag in brackets, an array, or an object around an array.  Of a        *)
(* StockPrice the model keeps symbol, price and lastUpdated.               *)
(***************************************************************************)
Entry(symbol, price) == [isNull |-> FALSE, symbol |-> symbol, price |-> price]

NullEntry == [isNull |-> TRUE, symbol |-> <<"absent", "">>, price |-> <<"absent", 0>>]

Entries ==
    {Entry(<<"string", "tcs">>, <<"number", 120>>),
     Entry(<<"string", "INFY">>, <<"number", 90>>),
     Entry(<<"string", "TCS">>, <<"number", 0>>),
     Entry(<<"string", "INFY">>, <<"string", 90>>),
     Entry(<<"absent", "">>, <<"number", 50>>),
     Entry(<<"number", "5">>, <<"number", 10>>),
     NullEntry}

Arrays == UNION {[1..n -> Entries] : n \in 0..MaxEntries}

Outcome(kind, items) == [kind |-> kind, items |-> items]

Outcomes ==
    {Outcome(kind, <<>>) : kind \in {"rejected", "empty", "prose"}}
    \cup {Outcome(kind, items) :
             kind \in {"array", "object", "fenced", "tagged"}, items \in Arrays}
    \cup {Outcome("twoArrays", items) : items \in [1..2 -> Entries]}

Part(kind, items) == [kind |-> kind, items |-> items]

\* text without a bracket or a brace
Prose == Part("prose", <<>>)

\* response.text || "", as its parts
TextOf(outcome) ==
    CASE outcome.kind = "prose"  -> <<Prose>>
      [] outcome.kind = "array"  -> <<Part("array", outcome.items)>>
      [] outcome.kind = "object" -> <<Part("object", outcome.items)>>
      [] outcome.kind = "fenced" ->
            <<Prose, Part("array", outcome.items), Prose>>
      [] outcome.kind = "tagged" ->
            <<Prose, Part("tag", <<>>), Prose, Part("array", outcome.items),
              Prose>>
      [] outcome.kind = "twoArrays" ->
            <<Part("array", <<outcome.items[1]>>), Prose,
              Part("array", <<outcome.items[2]>>)>>
      [] OTHER -> <<>>

\* the least and the greatest element of a set of integers that is not empty
SetMin(S) == CHOOSE i \in S : \A j \in S : i <= j

SetMax(S) == CHOOSE i \in S : \A j \in S : j <= i

\* the part holds "[" and "]"
HasBracket(part) == part.kind \in {"tag", "array", "object"}

\* the part holds "[" followed by "{": an array that begins with an object
HasOpener(part) ==
    /\ part.kind \in {"array", "object"}
    /\ part.items # <<>>
    /\ ~part.items[1].isNull

\* the part holds "}" followed by "]": an array that ends with an object
HasCloser(part) ==
    /\ part.kind \in {"array", "object"}
    /\ part.items # <<>>
    /\ ~Last(part.items).isNull

\* a value of the variable data
Data(isArray, items) == [isArray |-> isArray, items |-> items]

\* let data = []
NoData == Data(TRUE, <<>>)

\* text.match(/\[\s*\{[\s\S]*\}\s*\]/): <<first, last>>, the parts where the
\* match begins and ends, or <<>> for null.  The match begins at the first
\* "[{" and, the pattern being greedy, ends at the last "}]" of the text.
JsonMatch(text) ==
    LET openers == {i \in DOMAIN text : HasOpener(text[i])}
        closers == {i \in DOMAIN text : HasCloser(text[i])}
    IN  IF openers # {} /\ closers # {} /\ SetMin(openers) <= SetMax(closers)
        THEN <<SetMin(openers), SetMax(closers)>>
        ELSE <<>>

\* the try block of the extraction: JSON.parse of the match, or of the whole
\* text if there is no match; <<>> if JSON.parse throws, or <<data>>.  A
\* match that spans several parts is no JSON, and the whole text is JSON
\* only if it is one array or one object.
FirstParse(text) ==
    LET m == JsonMatch(text)
    IN  IF m # <<>>
        THEN IF m[1] = m[2] THEN <<Data(TRUE, text[m[1]].items)>> ELSE <<>>
        ELSE IF Len(text) = 1 /\ text[1].kind = "array"
        THEN <<Data(TRUE, text[1].items)>>
        ELSE IF Len(text) = 1 /\ text[1].kind = "object"
        THEN <<Data(FALSE, <<>>)>>
        ELSE <<>>

\* the catch block of the extraction: text.match(/\[.*\]/s) runs from the
\* first "[" to the last "]" of the text; data is its JSON.parse, or stays
\* [] if there is no match or JSON.parse throws
FallbackParse(text) ==
    LET brackets == {i \in DOMAIN text : HasBracket(text[i])}
    IN  IF /\ brackets # {}
           /\ SetMin(brackets) = SetMax(brackets)
           /\ text[SetMin(brackets)].kind \in {"array", "object"}
        THEN Data(TRUE, text[SetMin(brackets)].items)
        ELSE NoData

\* data after the JSON extraction
ParseResponse(outcome) ==
    LET text == TextOf(outcome)
    IN  IF FirstParse(text) # <<>> THEN FirstParse(text)[1]
        ELSE FallbackParse(text)

\* a JavaScript value that counts as true in a condition
Truthy(v) == \/ v[1] = "string" /\ v[2] # ""
             \/ v[1] = "number" /\ v[2] # "0"

\* info && info.symbol && typeof info.price === 'number'
Accepted(info) ==
    /\ ~info.isNull
    /\ Truthy(info.symbol)
    /\ info.price[1] = "number"

\* info.symbol.toUpperCase() fails: the symbol is no string
Throws(info) == Accepted(info) /\ info.symbol[1] # "string"

\* result after data.forEach over items
RECURSIVE Collect(_, _)
Collect(items, now) ==
    IF items = <<>> THEN EmptyMap
    ELSE LET info == Last(items)
             rest == Collect(Front(items), now)
             sym  == ToUpperCase(info.symbol[2])
         IN  IF Accepted(info)
             THEN Put(rest, sym, [symbol |-> sym, price |-> info.price[2],
                                  lastUpdated |-> now])
             ELSE rest

\* the try block ends in an exception: the call was rejected or forEach
\* met a symbol that has no toUpperCase
Thrown(outcome) ==
    \/ outcome.kind = "rejected"
    \/ LET data == ParseResponse(outcome)
       IN  data.isArray /\ \E n \in 1..Len(data.items) : Throws(data.items[n])

\* Settled without the catch block
Settled_Rethrow(outcome, now) ==
    LET data == ParseResponse(outcome)
    IN  IF Thrown(outcome)
        THEN [raised |-> TRUE, value |-> EmptyMap]
        ELSE [raised |-> FALSE,
              value  |-> IF data.isArray THEN Collect(data.items, now)
                         ELSE EmptyMap]

\* how fetchStockPrices ends once generateContent has settled: the value of
\* the try block, or {} from the catch block
Settled(outcome, now) ==
    LET data == ParseResponse(outcome)
    IN  IF Thrown(outcome)
        THEN [raised |-> FALSE, value |-> EmptyMap]
        ELSE [raised |-> FALSE,
              value  |-> IF data.isArray THEN Collect(data.items, now)
                         ELSE EmptyMap]

SymbolLists == {<<>>, <<"TCS">>, <<"TCS", "INFY">>}

\* the call up to its first await, or to its return for an empty list
FetchCall(symbols) ==
    /\ fetch.stage = "none"
    /\ fetch' = IF symbols = <<>>
                THEN [NoFetch EXCEPT !.stage = "returned"]
                ELSE [NoFetch EXCEPT !.stage = "awaiting", !.symbols = symbols,
                                     !.called = TRUE]
    /\ UNCHANGED <<txStore, clock, pc, idx, transactions, replayVars,
                   periodVars, returned, appVars, db, response, log>>

\* generateContent settles and the call runs to its end
FetchSettle(outcome) ==
    /\ fetch.stage = "awaiting"
    /\ fetch' = [fetch EXCEPT !.stage = "returned", !.outcome = outcome,
                              !.raised = Settled(outcome, clock).raised,
                              !.value = Settled(outcome, clock).value]
    /\ UNCHANGED <<txStore, clock, pc, idx, transactions, replayVars,
                   periodVars, returned, appVars, db, response, log>>

\* the caller has taken the value
FetchExit ==
    /\ fetch.stage = "returned"
    /\ fetch' = NoFetch
    /\ UNCHANGED <<txStore, clock, pc, idx, transactions, replayVars,
                   periodVars, returned, appVars, db, response, log>>

NextFetch ==
    \/ \E symbols \in SymbolLists : FetchCall(symbols)
    \/ \E outcome \in Outcomes : FetchSettle(outcome)
    \/ FetchExit

SpecFetch == Init /\ [][NextFetch]_vars

(***************************************************************************)
(* The App component: refreshData, handleAddTransaction and the totals.    *)
(* refreshData runs to its await in one step (RefreshFrom) and from the    *)
(* settling of fetchStockPrices to its end in another (RefreshResume);     *)
(* calls that wait for prices may be several, and they may settle in any   *)
(* order.  fetch keeps the fetchStockPrices call that returned last.       *)
(***************************************************************************)
\* what the form of the App hands to storage.addTransaction
AppInputs ==
    {FormInput(1, sym, trade, <<2026, 1, 10>>) :
        sym \in Symbols, trade \in {<<"BUY", 10, 100>>, <<"SELL", 4, 150>>}}
    \cup {LargeInput(1, "INFY", "BUY", 10, <<2026, 1, 10>>)}

\* what the price service answers to the App
AppOutcomes ==
    {Outcome("rejected", <<>>),
     Outcome("array", <<Entry(<<"string", "tcs">>, <<"number", 120>>),
                        Entry(<<"string", "INFY">>, <<"number", 90>>)>>),
     Outcome("array", <<Entry(<<"string", "tcs">>, <<"number", 120>>)>>)}

\* holdingsData.map(h => h.symbol)
SymbolsOf(rows) == [n \in 1..Len(rows) |-> rows[n].symbol]

CouldNotFetch == "Could not fetch live prices. Using purchase prices."

NetworkError == "Network error. Please check your connection."

\* activeAccount after setActiveAccount(updatedAccounts[0]) on an empty list
Undefined == [id |-> 0, name |-> "undefined"]

\* the state refreshData works on, left alone
NoRefresh ==
    UNCHANGED <<clock, pc, idx, replayVars, periodVars, returned, prices,
                lastUpdated, fetch, db, response, appHoldings, transactions,
                isRefreshing, fetchError, pending>>

\* refreshData of the render whose activeAccount is account, over the
\* stored list all, from the line after storage.getHoldings up to await
\* fetchStockPrices or, with nothing to price, to its end
RefreshWith(all, account, holdingsData) ==
    LET symbols == SymbolsOf(holdingsData)
    IN  /\ pc = "idle"
        /\ symbols # <<>> => Len(pending) < MaxPending
        /\ appHoldings' = holdingsData
        /\ transactions' = GetTransactions(all, account.id)
        /\ IF symbols # <<>>
           THEN /\ isRefreshing' = TRUE
                /\ fetchError' = "null"
                /\ pending' = Append(pending, [symbols |-> symbols])
           ELSE /\ isRefreshing' = FALSE
                /\ UNCHANGED <<fetchError, pending>>
        /\ UNCHANGED <<clock, pc, idx, replayVars, periodVars, returned,
                       prices, lastUpdated, fetch, db, response>>

\* refreshData for the account, up to its await: if (!activeAccount) return
RefreshAs(all, account) ==
    IF account = Undefined THEN NoRefresh
    ELSE RefreshWith(all, account, GetHoldings(all, account.id))

\* refreshData while the account on screen stays
RefreshFrom(all) ==
    /\ RefreshAs(all, activeAccount)
    /\ UNCHANGED <<accountStore, activeAccount, accounts, activeTab>>

\* refreshData called by the interval, the effect or the refresh button
RefreshData ==
    /\ RefreshFrom(txStore)
    /\ UNCHANGED txStore

\* handleAddTransaction: storage.addTransaction, then refreshData
HandleAddTransaction(tx) ==
    /\ activeAccount # Undefined
    /\ Len(txStore) < MaxTx
    /\ txStore' = Append(txStore, NewTx(tx, clock))
    /\ RefreshFrom(txStore')

\* the pending calls without the k-th
Without(s, k) == SubSeq(s, 1, k - 1) \o SubSeq(s, k + 1, Len(s))

\* the rest of the k-th waiting refreshData once its fetchStockPrices has
\* settled with the given outcome
RefreshResume(k, outcome) ==
    LET call      == pending[k]
        settled   == Settled(outcome, clock)
        priceData == settled.value
    IN  /\ pc = "idle"
        /\ fetch' = [stage |-> "returned", symbols |-> call.symbols,
                     called |-> TRUE, outcome |-> outcome,
                     raised |-> settled.raised, value |-> priceData]
        /\ IF settled.raised
           THEN /\ fetchError' = NetworkError
                /\ UNCHANGED <<prices, lastUpdated>>
           ELSE IF DOMAIN priceData # {}
           THEN /\ prices' = priceData
                /\ lastUpdated' = Some(clock)
                /\ UNCHANGED fetchError
           ELSE /\ fetchError' = CouldNotFetch
                /\ UNCHANGED <<prices, lastUpdated>>
        /\ isRefreshing' = FALSE
        /\ pending' = Without(pending, k)
        /\ UNCHANGED <<txStore, clock, pc, idx, transactions, replayVars,
                       periodVars, returned, accountStore, activeAccount,
                       appHoldings, accounts, activeTab, db, response>>

(***************************************************************************)
(* Sessions that begin after the App has mounted: the store holds a ledger *)
(* of earlier sessions and the refreshData of the mount has run to its     *)
(* end, its fetchStockPrices, if the account has holdings, answered.       *)
(***************************************************************************)
\* what the price service answered to the refreshData of the mount
MountOutcome ==
    Outcome("array", <<Entry(<<"string", "tcs">>, <<"number", 120>>),
                       Entry(<<"string", "INFY">>, <<"number", 90>>)>>)

\* the App after refreshData has shown the rows holdingsData of the account
\* and run to its end, from the values of useState
RefreshedWith(account, holdingsData) ==
    LET symbols == SymbolsOf(holdingsData)
        settled == Settled(MountOutcome, clock)
    IN  /\ appHoldings = holdingsData
        /\ transactions = GetTransactions(txStore, account.id)
        /\ isRefreshing = FALSE
        /\ fetchError = "null"
        /\ pending = <<>>
        /\ IF symbols = <<>>
           THEN /\ fetch = NoFetch
                /\ prices = EmptyMap
                /\ lastUpdated = None
           ELSE /\ fetch = [stage |-> "returned", symbols |-> symbols,
                            called |-> TRUE, outcome |-> MountOutcome,
                            raised |-> settled.raised,
                            value |-> settled.value]
                /\ prices = settled.value
                /\ lastUpdated = Some(clock)

\* the App after the refreshData of the mount has run to its end
Refreshed(account) ==
    RefreshedWith(account, GetHoldings(txStore, account.id))

\* a session holding a stored ledger whose transactions are on screen
InitPeriod ==
    /\ clock \in PeriodClocks
    /\ \E m \in 0..MaxTx : \E f \in [1..m -> PeriodInputs] :
          txStore = Stored(f, Instant(<<2026, 10, 29>>, 9))
    /\ accountStore = INITIAL_ACCOUNTS
    /\ accounts = INITIAL_ACCOUNTS
    /\ activeAccount = INITIAL_ACCOUNTS[1]
    /\ activeTab = 1
    /\ Refreshed(INITIAL_ACCOUNTS[1])
    /\ pc = "idle"
    /\ idx = 0
    /\ NoReplay
    /\ NoPeriod
    /\ returned = NoneReturned
    /\ db = StartUp(NewDatabase)
    /\ response = None
    /\ log = NoLog

SpecPeriod == InitPeriod /\ [][NextPeriod]_vars

InitCalls ==
    /\ clock = StartClock
    /\ \E m \in 0..MaxTx : \E f \in [1..m -> CallInputs] :
          txStore = Stored(f, Instant(<<2026, 10, 29>>, 9))
    /\ accountStore = INITIAL_ACCOUNTS
    /\ accounts = INITIAL_ACCOUNTS
    /\ activeAccount = INITIAL_ACCOUNTS[1]
    /\ activeTab = 1
    /\ Refreshed(INITIAL_ACCOUNTS[1])
    /\ pc = "idle"
    /\ idx = 0
    /\ NoReplay
    /\ NoPeriod
    /\ returned = NoneReturned
    /\ db = StartUp(NewDatabase)
    /\ response = None
    /\ log = NoLog

SpecCalls == InitCalls /\ [][NextCalls]_vars

\* the same for either account on screen
InitView ==
    /\ clock = StartClock
    /\ \E m \in 0..MaxTx : \E f \in [1..m -> ViewInputs] :
          txStore = Stored(f, Instant(<<2026, 10, 29>>, 9))
    /\ accountStore = INITIAL_ACCOUNTS
    /\ accounts = INITIAL_ACCOUNTS
    /\ \E n \in 1..Len(INITIAL_ACCOUNTS) :
          /\ activeAccount = INITIAL_ACCOUNTS[n]
          /\ activeTab = n
          /\ Refreshed(INITIAL_ACCOUNTS[n])
    /\ pc = "idle"
    /\ idx = 0
    /\ NoReplay
    /\ NoPeriod
    /\ returned = NoneReturned
    /\ db = StartUp(NewDatabase)
    /\ response = None
    /\ log = NoLog

SpecView == InitView /\ [][NextCalls]_vars

\* prices[h.symbol]?.price || h.avgPrice
CurrentPrice_NoFallback(h, pr) ==
    IF h.symbol \in DOMAIN pr THEN Num(pr[h.symbol].price) ELSE Zero

CurrentPrice(h, pr) ==
    IF h.symbol \in DOMAIN pr /\ pr[h.symbol].price # 0
    THEN Num(pr[h.symbol].price)
    ELSE h.avgPrice

\* unrealizedPnL of a row: (currentPrice - holding.avgPrice) * holding.quantity
UnrealizedPnL(h, pr) ==
    Times(Minus(CurrentPrice(h, pr), h.avgPrice), Num(h.quantity))

\* holdings.reduce((acc, h) => acc + (h.quantity * h.avgPrice), 0)
RECURSIVE TotalInvested(_)
TotalInvested(rows) ==
    IF rows = <<>> THEN Zero
    ELSE Plus(TotalInvested(Front(rows)),
              Times(Num(Last(rows).quantity), Last(rows).avgPrice))

\* holdings.reduce((acc, h) => acc + (h.quantity * price), 0)
RECURSIVE TotalCurrentValue(_, _)
TotalCurrentValue(rows, pr) ==
    IF rows = <<>> THEN Zero
    ELSE Plus(TotalCurrentValue(Front(rows), pr),
              Times(Num(Last(rows).quantity), CurrentPrice(Last(rows), pr)))

TotalUnrealizedPnL(rows, pr) ==
    Minus(TotalCurrentValue(rows, pr), TotalInvested(rows))

\* holdings.reduce((acc, h) => acc + (h.realizedPnL || 0), 0)
RECURSIVE TotalRealizedPnL(_)
TotalRealizedPnL(rows) ==
    IF rows = <<>> THEN Zero
    ELSE Plus(TotalRealizedPnL(Front(rows)), OrZero(Last(rows).realizedPnL))

\* (totalUnrealizedPnL || 0) + (totalRealizedPnL || 0)
TotalPnL(rows, pr) ==
    Plus(OrZero(TotalUnrealizedPnL(rows, pr)), OrZero(TotalRealizedPnL(rows)))

NextApp ==
    \/ \E tx \in AppInputs : HandleAddTransaction(tx) /\ UNCHANGED log
    \/ RefreshData /\ UNCHANGED log
    \/ \E k \in 1..Len(pending) : \E outcome \in AppOutcomes :
          RefreshResume(k, outcome) /\ UNCHANGED log

SpecApp == Init /\ [][NextApp]_vars

(***************************************************************************)
(* The App with everything that starts a refreshData: the timer and the    *)
(* refresh button, handleAddTransaction, handleDeleteTransaction and the   *)
(* effect that runs when another account is selected.  log remembers what  *)
(* the most recently started price fetch returned (None while it waits)    *)
(* and whether some fetch has returned the empty map.                      *)
(***************************************************************************)
\* handleDeleteTransaction, confirmed: storage.deleteTransaction, refreshData
HandleDeleteTransaction(id) ==
    /\ txStore' = DeleteTransaction(txStore, id)
    /\ RefreshFrom(txStore')

\* onClick={() => setActiveAccount(acc)} and the effect on [activeAccount]
\* for the n-th tab; setting the state to the object it holds changes nothing
SelectAccount(n) ==
    /\ n # activeTab
    /\ activeAccount' = accounts[n]
    /\ activeTab' = n
    /\ RefreshAs(txStore, accounts[n])
    /\ UNCHANGED <<txStore, accountStore, accounts>>

\* log once a refreshData has run to its await or to its end
LogStarted ==
    log' = IF Len(pending') > Len(pending)
           THEN [log EXCEPT !.newest = None]
           ELSE log

\* log once the k-th waiting refreshData has taken the map it was returned
LogResumed(k) ==
    log' = [newest |-> IF k = Len(pending) /\ log.newest = None
                       THEN Some(fetch'.value)
                       ELSE log.newest,
            empty  |-> log.empty \/ DOMAIN fetch'.value = {}]

\* the trades the form hands over in this session
OverlapTrades == {<<"BUY", 10, 100>>}

NextOverlap ==
    \/ \E sym \in Symbols : \E trade \in OverlapTrades :
          /\ HandleAddTransaction(
                FormInput(activeAccount.id, sym, trade, <<2026, 1, 10>>))
          /\ LogStarted
    \/ \E n \in 1..Len(transactions) :
          HandleDeleteTransaction(transactions[n].id) /\ LogStarted
    \/ \E n \in 1..Len(accounts) : SelectAccount(n) /\ LogStarted
    \/ RefreshData /\ LogStarted
    \/ \E k \in 1..Len(pending) : \E outcome \in AppOutcomes :
          RefreshResume(k, outcome) /\ LogResumed(k)

SpecOverlap == Init /\ [][NextOverlap]_vars

(***************************************************************************)
(* storage called directly, with a clock that may or may not advance       *)
(* between two calls.                                                      *)
(***************************************************************************)
\* the ids of the accounts or transactions of a list
IdsOf(s) == {s[n].id : n \in 1..Len(s)}

\* what is handed to storage.addTransaction when the accounts are accs
StorageInputs(accs) ==
    {FormInput(a, "TCS", <<"BUY", 10, 100>>, <<2026, 1, 10>>) : a \in IdsOf(accs)}
    \cup {FormInput(2, "TCS", <<"SELL", 4, 150>>, <<2026, 1, 10>>)}

AccountNames == {"Joint"}

\* Date.now() gives a later value
Tick ==
    /\ pc = "idle"
    /\ clock < StartClock + MaxTicks
    /\ clock' = clock + 1
    /\ UNCHANGED <<txStore, pc, idx, transactions, replayVars, periodVars,
                   sessionVars>>

\* storage.saveAccount(name)
SaveAccount(name) ==
    /\ pc = "idle"
    /\ Len(accountStore) < MaxAccounts
    /\ accountStore' = Append(accountStore, NewAccount(name, clock))
    /\ UNCHANGED <<txStore, clock, pc, idx, transactions, replayVars,
                   periodVars, returned, fetch, db, response, log, activeAccount,
                   appHoldings, prices, isRefreshing, fetchError, lastUpdated,
                   pending, accounts, activeTab>>

\* storage.deleteAccount(id)
DeleteAccount(id) ==
    /\ pc = "idle"
    /\ accountStore' = WithoutAccount(accountStore, id)
    /\ txStore' = WithoutAccountRows(txStore, id)
    /\ UNCHANGED <<clock, pc, idx, transactions, replayVars,
                   periodVars, returned, fetch, db, response, log, activeAccount,
                   appHoldings, prices, isRefreshing, fetchError, lastUpdated,
                   pending, accounts, activeTab>>

\* storage.deleteTransaction(id)
DeleteTransactionCall(id) ==
    /\ pc = "idle"
    /\ txStore' = DeleteTransaction(txStore, id)
    /\ UNCHANGED <<clock, pc, idx, transactions, replayVars, periodVars,
                   sessionVars>>

NextStorage ==
    \/ Tick
    \/ \E tx \in StorageInputs(accountStore) :
          AddTransaction(tx) /\ UNCHANGED sessionVars
    \/ \E id \in IdsOf(txStore) : DeleteTransactionCall(id)
    \/ \E name \in AccountNames : SaveAccount(name)
    \/ \E id \in IdsOf(accountStore) : DeleteAccount(id)

SpecStorage == Init /\ [][NextStorage]_vars

(***************************************************************************)
(* The App with its account handlers.  Setting activeAccount to another    *)
(* object runs the effect on [activeAccount], which calls refreshData when *)
(* the new value is an account.                                            *)
(***************************************************************************)
\* setActiveAccount(account) and the effect on [activeAccount], the store
\* holding the transactions all
ActiveBecomes(account, all) ==
    /\ activeAccount' = account
    /\ IF account # Undefined THEN RefreshAs(all, account) ELSE NoRefresh

\* the place of the tab k of accs in accs.filter(a => a.id !== id), which
\* keeps the objects of the other accounts
TabAfterDelete(accs, k, id) ==
    IF k = 0 THEN 0
    ELSE k - Cardinality({m \in 1..(k - 1) : accs[m].id = id})

\* String.prototype.trim on the strings of the model
TrimString(str) ==
    CASE str = " " -> ""
      [] OTHER -> str

\* what is typed into the field of a name: a name, nothing, and a blank
FormNames == AccountNames \cup {"", " "}

\* handleCreateAccount with newAccountName = name
HandleCreateAccount(name) ==
    /\ TrimString(name) # ""
    /\ Len(accountStore) < MaxAccounts
    /\ accountStore' = Append(accountStore, NewAccount(name, clock))
    /\ accounts' = Append(accounts, NewAccount(name, clock))
    /\ ActiveBecomes(NewAccount(name, clock), txStore)
    /\ activeTab' = Len(accounts')
    /\ UNCHANGED txStore

\* handleRenameAccount(id) with renameValue = name
HandleRenameAccount(id, name) ==
    /\ TrimString(name) # ""
    /\ accountStore' = Renamed(accountStore, id, name)
    /\ accounts' = Renamed(accounts, id, name)
    /\ IF activeAccount # Undefined /\ activeAccount.id = id
       THEN /\ ActiveBecomes([activeAccount EXCEPT !.name = name], txStore)
            /\ activeTab' = 0
       ELSE NoRefresh /\ UNCHANGED <<activeAccount, activeTab>>
    /\ UNCHANGED txStore

\* handleDeleteAccount(id), confirmed
HandleDeleteAccount(id) ==
    /\ Len(accounts) > 1
    /\ accountStore' = WithoutAccount(accountStore, id)
    /\ txStore' = WithoutAccountRows(txStore, id)
    /\ accounts' = WithoutAccount(accounts, id)
    /\ IF activeAccount # Undefined /\ activeAccount.id = id
       THEN /\ ActiveBecomes(IF accounts' = <<>> THEN Undefined
                              ELSE accounts'[1], txStore')
            /\ activeTab' = IF accounts' = <<>> THEN 0 ELSE 1
       ELSE /\ NoRefresh
            /\ UNCHANGED activeAccount
            /\ activeTab' = TabAfterDelete(accounts, activeTab, id)

\* what is typed into the field of the rename
RenameNames == {"Family", " "}

\* what the price service answers in this session
AccountOutcomes ==
    {Outcome("array", <<Entry(<<"string", "tcs">>, <<"number", 120>>)>>)}

NextAccounts ==
    \/ Tick
    \/ \E name \in FormNames : HandleCreateAccount(name) /\ UNCHANGED log
    \/ \E n \in 1..Len(accounts) : \E name \in RenameNames :
          HandleRenameAccount(accounts[n].id, name) /\ UNCHANGED log
    \/ \E n \in 1..Len(accounts) :
          HandleDeleteAccount(accounts[n].id) /\ UNCHANGED log
    \/ \E n \in 1..Len(accounts) : SelectAccount(n) /\ UNCHANGED log
    \/ RefreshData /\ UNCHANGED log
    \/ /\ activeAccount # Undefined
       /\ HandleAddTransaction(
             FormInput(activeAccount.id, "TCS", <<"BUY", 10, 100>>,
                       <<2026, 1, 10>>))
       /\ UNCHANGED log
    \/ \E k \in 1..Len(pending) : \E outcome \in AccountOutcomes :
          RefreshResume(k, outcome) /\ UNCHANGED log

SpecAccounts == Init /\ [][NextAccounts]_vars

(***************************************************************************)
(* storage used directly: addTransaction stores the record it is handed,   *)
(* whatever its type field holds (the type 'BUY' | 'SELL' of types.ts is   *)
(* gone at run time), and getHoldings replays what is stored.              *)
(***************************************************************************)
RawTrades == {<<"BUY", 10, 100>>, <<"SELL", 4, 150>>, <<"DIVIDEND", 4, 150>>}

RawInputs ==
    {FormInput(1, "TCS", trade, d) : trade \in RawTrades, d \in Dates}

NextIngest ==
    \/ \E tx \in RawInputs : AddTransaction(tx) /\ UNCHANGED sessionVars
    \/ GetHoldingsCall(activeAccount.id) /\ UNCHANGED sessionVars
    \/ GetHoldingsStep /\ UNCHANGED sessionVars
    \/ GetHoldingsReturn /\ UNCHANGED sessionVars
    \/ GetHoldingsExit /\ UNCHANGED sessionVars

SpecIngest == Init /\ [][NextIngest]_vars

(***************************************************************************)
(* Properties of the replay (specification Spec).                          *)
(***************************************************************************)
\* the forEach iteration of getHoldings that processes a transaction of type t
Step(t) ==
    /\ pc = "getHoldings"
    /\ idx <= Len(sorted)
    /\ idx' = idx + 1
    /\ sorted[idx].type = t

\* the holding of the processed symbol before and after the iteration
Before == HoldingOf(holdings, sorted[idx].symbol)

After == holdings'[sorted[idx].symbol]

IsTrade(tx, t, q, p) ==
    tx.type = t /\ tx.quantity = q /\ tx.price = Num(p)

SameSymbol(s) == \A m, n \in 1..Len(s) : s[m].symbol = s[n].symbol

\* the replay has processed the whole ledger
Replayed == pc = "getHoldingsReturned"

\* C1 as stated: a SELL of q at p adds q*p - q*A to the symbol's realizedPnL
\* (A the avgPrice before the sale), subtracts q from quantity and subtracts
\* q*A from totalCost, wherever the SELL stands in the ledger.
C1_AsStated ==
    [][Step("SELL") =>
         LET tx   == sorted[idx]
             cost == Times(Num(tx.quantity), Before.avgPrice)
         IN  /\ realizedPnL'[tx.symbol] =
                  Plus(RealizedOf(realizedPnL, tx.symbol),
                       Minus(Times(Num(tx.quantity), tx.price), cost))
             /\ After.quantity = Before.quantity - tx.quantity
             /\ After.totalCost = Minus(Before.totalCost, cost)]_vars

\* C1 amended: a SELL of q at p adds q*p - q*A to the symbol's realizedPnL
\* and subtracts q from quantity; it subtracts q*A from totalCost when the
\* resulting quantity is > 0 and sets totalCost to 0 otherwise.
C1_SellUpdate ==
    [][Step("SELL") =>
         LET tx   == sorted[idx]
             cost == Times(Num(tx.quantity), Before.avgPrice)
         IN  /\ realizedPnL'[tx.symbol] =
                  Plus(RealizedOf(realizedPnL, tx.symbol),
                       Minus(Times(Num(tx.quantity), tx.price), cost))
             /\ After.quantity = Before.quantity - tx.quantity
             /\ After.totalCost = IF After.quantity > 0
                                  THEN Minus(Before.totalCost, cost)
                                  ELSE Zero]_vars

\* a SELL in the middle of a ledger has been processed at a cost basis that
\* the following BUY is about to change
C1_Witness ==
    /\ pc = "getHoldings"
    /\ Len(sorted) = 3
    /\ idx = 3
    /\ SameSymbol(sorted)
    /\ sorted[1].type = "BUY"
    /\ sorted[2].type = "SELL"
    /\ sorted[3].type = "BUY"
    /\ sorted[3].price # sorted[1].price
    /\ holdings[sorted[2].symbol].quantity > 0
    /\ realizedPnL[sorted[2].symbol] =
         Times(Num(sorted[2].quantity),
               Minus(sorted[2].price, sorted[1].price))
    /\ realizedPnL[sorted[2].symbol] # Zero

\* the ledger BUY 10@100, SELL 4@150, BUY 5@200 of one symbol
PartialSequence(s) ==
    /\ Len(s) = 3
    /\ SameSymbol(s)
    /\ IsTrade(s[1], "BUY", 10, 100)
    /\ IsTrade(s[2], "SELL", 4, 150)
    /\ IsTrade(s[3], "BUY", 5, 200)

PartialSequenceResult ==
    (Replayed /\ PartialSequence(sorted)) =>
        LET h == holdings[sorted[1].symbol]
        IN  /\ h.quantity = 11
            /\ h.totalCost = Num(1600)
            /\ h.avgPrice = Over(Num(1600), Num(11))
            /\ realizedPnL[sorted[1].symbol] = Num(200)

\* C2 as stated: a BUY of q at p adds q to quantity, q*p to totalCost and sets
\* avgPrice to the new totalCost divided by the new quantity; BUY 10@100,
\* SELL 4@150, BUY 5@200 ends with quantity 11, totalCost 1600, avgPrice
\* 1600/11, realizedPnL 200.
C2_AsStated ==
    /\ [][Step("BUY") =>
            LET tx == sorted[idx]
            IN  /\ After.quantity = Before.quantity + tx.quantity
                /\ After.totalCost =
                     Plus(Before.totalCost, Times(Num(tx.quantity), tx.price))
                /\ After.quantity # 0
                /\ After.avgPrice = Over(After.totalCost, Num(After.quantity))]_vars
    /\ []PartialSequenceResult

\* C2 amended: a BUY of q at p adds q to quantity and q*p to totalCost, and
\* sets avgPrice to the new totalCost divided by the new quantity when the new
\* quantity is > 0, to 0 otherwise; the example ends as stated.
C2_BuyUpdate ==
    /\ [][Step("BUY") =>
            LET tx == sorted[idx]
            IN  /\ After.quantity = Before.quantity + tx.quantity
                /\ After.totalCost =
                     Plus(Before.totalCost, Times(Num(tx.quantity), tx.price))
                /\ After.avgPrice = IF After.quantity > 0
                                    THEN Over(After.totalCost, Num(After.quantity))
                                    ELSE Zero]_vars
    /\ []PartialSequenceResult

\* the example ledger of C2 has been replayed
C2_Witness ==
    /\ Replayed
    /\ PartialSequence(sorted)
    /\ holdings[sorted[1].symbol].avgPrice = Over(Num(1600), Num(11))

\* the magnitude of a number
Magnitude(x) == IF Sgn(x) < 0 THEN Neg(x) ELSE x

\* the floating-point tolerance of the comparisons of amounts, 1e-9
Tolerance == Over(Num(1), Num(1000000000))

\* x and y are equal within the tolerance
Near(x, y) ==
    Finite(x) /\ Finite(y) /\ AtMost(Magnitude(Minus(x, y)), Tolerance)

\* C3 as stated: whenever a symbol's quantity is > 0, avgPrice * quantity is
\* exactly totalCost, after every transaction of every ledger.
C3_AsStated ==
    \A s \in DOMAIN holdings :
        holdings[s].quantity > 0 =>
            Times(holdings[s].avgPrice, Num(holdings[s].quantity)) =
                holdings[s].totalCost

\* C3: whenever a symbol's quantity is > 0, avgPrice * quantity is totalCost
\* within the floating-point tolerance, after every transaction of every
\* ledger, also after an oversell followed by buys.
C3_AvgTimesQuantity ==
    \A s \in DOMAIN holdings :
        holdings[s].quantity > 0 =>
            Near(Times(holdings[s].avgPrice, Num(holdings[s].quantity)),
                 holdings[s].totalCost)

\* an oversell followed by buys has left an open position
C3_Witness ==
    /\ pc = "getHoldings"
    /\ idx = 4
    /\ SameSymbol(sorted)
    /\ sorted[1].type = "SELL"
    /\ sorted[2].type = "BUY"
    /\ sorted[3].type = "BUY"
    /\ sorted[1].quantity > sorted[2].quantity
    /\ holdings[sorted[1].symbol].quantity > 0

\* C4: a SELL that leaves quantity <= 0 sets totalCost and avgPrice to 0; the
\* SELL is applied in full (quantity goes down by q, below 0 on an oversell)
\* and realizedPnL receives q*p - q*A; BUY 10@100, SELL 10@150 gives
\* quantity 0, totalCost 0, avgPrice 0, realizedPnL 500.
FullLiquidation(s) ==
    /\ Len(s) = 2
    /\ SameSymbol(s)
    /\ IsTrade(s[1], "BUY", 10, 100)
    /\ IsTrade(s[2], "SELL", 10, 150)

C4_CloseResets ==
    /\ [][Step("SELL") =>
            LET tx == sorted[idx]
            IN  /\ After.quantity = Before.quantity - tx.quantity
                /\ tx.quantity > Before.quantity => After.quantity < 0
                /\ After.quantity <= 0 =>
                     /\ After.totalCost = Zero
                     /\ After.avgPrice = Zero
                     /\ realizedPnL'[tx.symbol] =
                          Plus(RealizedOf(realizedPnL, tx.symbol),
                               Minus(Times(Num(tx.quantity), tx.price),
                                     Times(Num(tx.quantity), Before.avgPrice)))]_vars
    /\ [](Replayed /\ FullLiquidation(sorted) =>
            LET h == holdings[sorted[1].symbol]
            IN  /\ h.quantity = 0
                /\ h.totalCost = Zero
                /\ h.avgPrice = Zero
                /\ realizedPnL[sorted[1].symbol] = Num(500))

\* the full liquidation of the example has been replayed
C4_Witness ==
    /\ Replayed
    /\ FullLiquidation(sorted)
    /\ realizedPnL[sorted[1].symbol] = Num(500)

\* C5 as stated: after processing any BUY the symbol's quantity is > 0, also
\* in ledgers in which an earlier SELL oversold the symbol.
C5_AsStated == [][Step("BUY") => After.quantity > 0]_vars

\* C5 amended: after processing a BUY the symbol's quantity is > 0 whenever
\* its quantity before the BUY was >= 0.
C5_BuyFromNonNegative ==
    [][Step("BUY") /\ Before.quantity >= 0 => After.quantity > 0]_vars

\* a BUY has reopened a position that a SELL had closed exactly
C5_Witness ==
    /\ pc = "getHoldings"
    /\ idx = 4
    /\ SameSymbol(sorted)
    /\ sorted[1].type = "BUY"
    /\ sorted[2].type = "SELL"
    /\ sorted[2].quantity = sorted[1].quantity
    /\ sorted[3].type = "BUY"
    /\ holdings[sorted[1].symbol].quantity = sorted[3].quantity

\* C6 as stated: in every state of the replay a symbol's avgPrice is exactly
\* totalCost / quantity when quantity > 0 and 0 when quantity <= 0.
C6_AsStated ==
    \A s \in DOMAIN holdings :
        holdings[s].avgPrice =
            IF holdings[s].quantity > 0
            THEN Over(holdings[s].totalCost, Num(holdings[s].quantity))
            ELSE Zero

\* avgPrice is totalCost / quantity within the tolerance on an open position
\* and 0 on any other
AvgPriceWithinTolerance ==
    \A s \in DOMAIN holdings :
        IF holdings[s].quantity > 0
        THEN Near(holdings[s].avgPrice,
                  Over(holdings[s].totalCost, Num(holdings[s].quantity)))
        ELSE holdings[s].avgPrice = Zero

\* C6: in every state of the replay a symbol's avgPrice is 0 when quantity
\* <= 0 and totalCost / quantity when quantity > 0: the very quotient after a
\* BUY, and within the floating-point tolerance after a SELL, which rounds
\* the new totalCost and keeps avgPrice.
C6_AvgPriceDefined ==
    /\ []AvgPriceWithinTolerance
    /\ [][Step("BUY") /\ After.quantity > 0 =>
            After.avgPrice = Over(After.totalCost, Num(After.quantity))]_vars

\* a BUY after an oversell has left a cost on a position that is not open,
\* next to an open position of another symbol
C6_Witness ==
    /\ pc = "getHoldings"
    /\ DOMAIN holdings = Symbols
    /\ \E s \in Symbols :
          /\ holdings[s].quantity < 0
          /\ holdings[s].totalCost # Zero
          /\ holdings[s].avgPrice = Zero
    /\ \E s \in Symbols :
          /\ holdings[s].quantity > 0
          /\ holdings[s].avgPrice # Zero

\* C7: a SELL that leaves quantity > 0 leaves avgPrice unchanged; a SELL
\* changes avgPrice only when the resulting quantity is <= 0, and then to 0.
C7_SellKeepsAvgPrice ==
    [][Step("SELL") =>
         /\ After.quantity > 0 => After.avgPrice = Before.avgPrice
         /\ After.avgPrice # Before.avgPrice =>
              After.quantity <= 0 /\ After.avgPrice = Zero]_vars

\* a partial SELL of a position bought at two prices has been processed
C7_Witness ==
    /\ pc = "getHoldings"
    /\ idx = 4
    /\ SameSymbol(sorted)
    /\ IsTrade(sorted[1], "BUY", 10, 100)
    /\ IsTrade(sorted[2], "BUY", 5, 200)
    /\ sorted[3].type = "SELL"
    /\ holdings[sorted[1].symbol].quantity > 0
    /\ holdings[sorted[1].symbol].avgPrice = Over(Num(2000), Num(15))

\* the transactions of the account being replayed, in storage order
Own == SelectSeq(txStore, LAMBDA t : t.account_id = accountId)

\* the account holds one BUY b and one later SELL s of no more units
BuyThenSell(b, s) ==
    /\ Len(Own) = 2
    /\ \E m, n \in 1..2 : m # n /\ Own[m] = b /\ Own[n] = s
    /\ b.type = "BUY"
    /\ s.type = "SELL"
    /\ b.symbol = s.symbol
    /\ GetTime(s.date) > GetTime(b.date)
    /\ s.quantity <= b.quantity

\* C8 as stated: one BUY q0@p0 and one later SELL q1@p1, q1 <= q0, yield
\* realizedPnL = q1*(p1 - p0), quantity = q0 - q1 and avgPrice = p0.
C8_AsStated ==
    Replayed =>
        \A b, s \in {txStore[n] : n \in 1..Len(txStore)} :
            BuyThenSell(b, s) =>
                /\ realizedPnL[b.symbol]
                      = Times(Num(s.quantity), Minus(s.price, b.price))
                /\ holdings[b.symbol].quantity = b.quantity - s.quantity
                /\ holdings[b.symbol].avgPrice = b.price

\* C8 amended: one BUY q0@p0 and one later SELL q1@p1, q1 <= q0, yield
\* realizedPnL = q1*(p1 - p0), quantity = q0 - q1, and avgPrice = p0 when
\* q1 < q0, avgPrice = 0 when q1 = q0.
C8_RealizedProfitIdentity ==
    Replayed =>
        \A b, s \in {txStore[n] : n \in 1..Len(txStore)} :
            BuyThenSell(b, s) =>
                /\ realizedPnL[b.symbol]
                      = Times(Num(s.quantity), Minus(s.price, b.price))
                /\ holdings[b.symbol].quantity = b.quantity - s.quantity
                /\ holdings[b.symbol].avgPrice =
                     IF s.quantity < b.quantity THEN b.price ELSE Zero

\* a BUY and a later partial SELL, stored SELL first, have been replayed
C8_Witness ==
    /\ Replayed
    /\ Len(Own) = 2
    /\ BuyThenSell(Own[2], Own[1])
    /\ Own[1].quantity < Own[2].quantity
    /\ realizedPnL[Own[1].symbol] # Zero

(***************************************************************************)
(* Properties of calculatePeriodProfit (specification SpecPeriod).         *)
(***************************************************************************)
\* the ledger on screen in chronological order, same-date transactions in
\* the order they were stored
Chronological == SortAsc(SelectSeq(txStore, LAMBDA t : t.account_id = 1))

\* the sum of q * (p - A) over the SELLs among the first n transactions of s
\* whose date is at or after the instant cut, A being the symbol's avgPrice
\* when the replay of the whole of s reaches the SELL
RECURSIVE SaleProfits(_, _, _)
SaleProfits(s, n, cut) ==
    IF n = 0 THEN Zero
    ELSE LET tx   == s[n]
             A    == HoldingOf(ReplayAll(SubSeq(s, 1, n - 1)), tx.symbol).avgPrice
             rest == SaleProfits(s, n - 1, cut)
         IN  IF tx.type = "SELL" /\ GetTime(tx.date) >= cut
             THEN Plus(rest, Times(Num(tx.quantity), Minus(tx.price, A)))
             ELSE rest

PeriodReturned == pc = "calculatePeriodProfitReturned"

\* C9: calculatePeriodProfit returns the sum of q * (p - A) over exactly the
\* SELLs dated at or after cutoff, A being the avgPrice at the sale in the
\* replay of the whole chronological ledger; the transactions before the
\* cutoff update quantity, totalCost and avgPrice as the replay without a
\* window does.
C9_WindowAttribution ==
    /\ pc \in {"calculatePeriodProfit", "calculatePeriodProfitReturned"} =>
          LET full == ReplayAll(SubSeq(Chronological, 1, idx - 1))
          IN  /\ DOMAIN tempHoldings = DOMAIN full
              /\ \A s \in DOMAIN full :
                    /\ tempHoldings[s].quantity = full[s].quantity
                    /\ tempHoldings[s].totalCost = full[s].totalCost
                    /\ tempHoldings[s].avgPrice = full[s].avgPrice
    /\ PeriodReturned =>
          totalProfit = SaleProfits(Chronological, Len(Chronological), cutoff)

\* a BUY older than every window, a SELL before the cutoff and a SELL inside
\* the window: only the last one is counted, at the cost of the old BUY
C9_Witness ==
    /\ PeriodReturned
    /\ months = 1
    /\ Len(sortedTxs) = 3
    /\ IsTrade(sortedTxs[1], "BUY", 10, 100)
    /\ sortedTxs[1].date = <<2025, 1, 15>>
    /\ IsTrade(sortedTxs[2], "SELL", 4, 150)
    /\ sortedTxs[2].date = <<2026, 6, 1>>
    /\ IsTrade(sortedTxs[3], "SELL", 4, 150)
    /\ sortedTxs[3].date = <<2026, 10, 15>>
    /\ totalProfit = Num(200)
    /\ tempHoldings["TCS"].quantity = 2

\* midnight of the calendar date of today minus m calendar months
CutoffDate(now, m) == (Cutoff(now, m) \div HoursPerDay) * HoursPerDay

\* C10: calculatePeriodProfit(N) counts a SELL if and only if its calendar
\* date is on or after today's calendar date minus N calendar months, at
\* whatever time of day it is called.
C10_AsStated ==
    PeriodReturned =>
        totalProfit =
            SaleProfits(Chronological, Len(Chronological), CutoffDate(clock, months))

(***************************************************************************)
(* Properties of the returned list (specification SpecAmounts).            *)
(***************************************************************************)
\* the rows of the returned list that carry the symbol sym
RowsOf(sym) == {n \in 1..Len(result) : result[n].symbol = sym}

\* after the full replay the symbol is closed with a realizedPnL of 0
Dropped(sym) ==
    \/ sym \notin DOMAIN holdings
    \/ /\ holdings[sym].quantity <= 0
       /\ realizedPnL[sym] = Zero

\* the list returned by getHoldings holds a symbol if and only if, after the
\* full replay, NOT (quantity <= 0 AND realizedPnL = 0); a symbol closed with
\* realizedPnL = 0 is absent, a symbol closed with realizedPnL # 0 is present
\* with quantity 0, and each row is the symbol's holding carrying the
\* symbol's cumulative realizedPnL
C12_AsStated ==
    Replayed =>
        /\ \A sym \in AmountSymbols :
             /\ (RowsOf(sym) # {}) <=> ~Dropped(sym)
             /\ Cardinality(RowsOf(sym)) <= 1
        /\ \A n \in 1..Len(result) :
             LET row == result[n]
                 h   == holdings[row.symbol]
             IN  /\ row.symbol \in DOMAIN holdings
                 /\ row.quantity = h.quantity
                 /\ row.totalCost = h.totalCost
                 /\ row.avgPrice = h.avgPrice
                 /\ row.realizedPnL = realizedPnL[row.symbol]
                 /\ row.quantity <= 0 => row.realizedPnL # Zero

\* C12: the list returned by getHoldings holds a symbol, once, if and only
\* if, after the full replay, NOT (quantity <= 0 AND realizedPnL = 0); a
\* symbol closed with realizedPnL = 0 is absent, a symbol closed with a
\* cumulative realizedPnL other than 0 is present with quantity 0, and each
\* row is the symbol's holding carrying the symbol's cumulative realizedPnL,
\* or 0 where the cumulative realizedPnL is NaN (realizedPnL[symbol] || 0).
C12_ProjectionFilter ==
    Replayed =>
        /\ \A sym \in AmountSymbols :
             /\ (RowsOf(sym) # {}) <=> ~Dropped(sym)
             /\ Cardinality(RowsOf(sym)) <= 1
        /\ \A n \in 1..Len(result) :
             LET row == result[n]
                 h   == holdings[row.symbol]
                 rp  == realizedPnL[row.symbol]
             IN  /\ row.symbol \in DOMAIN holdings
                 /\ row.quantity = h.quantity
                 /\ row.totalCost = h.totalCost
                 /\ row.avgPrice = h.avgPrice
                 /\ rp # NaN => row.realizedPnL = rp
                 /\ rp = NaN => row.realizedPnL = Zero
                 /\ row.quantity <= 0 => rp # Zero

\* TCS bought and sold at 1e308 is closed with a realizedPnL of NaN and is
\* listed with quantity 0 and realizedPnL 0, after the symbol 500325 that
\* was bought later
C12_Witness ==
    /\ Replayed
    /\ Len(sorted) = 3
    /\ holdings["TCS"].quantity = 0
    /\ realizedPnL["TCS"] = NaN
    /\ Len(result) = 2
    /\ result[1].symbol = "500325"
    /\ result[1].quantity = 10
    /\ result[2].symbol = "TCS"
    /\ result[2].quantity = 0
    /\ result[2].realizedPnL = Zero

(***************************************************************************)
(* Properties of the processing order (specification Spec).                *)
(***************************************************************************)
\* the transactions of s dated d, in the order of s
OfDate(s, d) == SelectSeq(s, LAMBDA t : t.date = d)

\* the transactions of s date by date, earliest date first, those of one
\* date in the order of s
RECURSIVE ByDate(_, _)
ByDate(s, dates) ==
    IF dates = {} THEN <<>>
    ELSE LET first == CHOOSE d \in dates :
                         \A e \in dates : GetTime(d) <= GetTime(e)
         IN  OfDate(s, first) \o ByDate(s, dates \ {first})

DatesOf(s) == {s[n].date : n \in 1..Len(s)}

\* the sequence s with the transactions at k and k + 1 in each other's place
Swapped(s, k) ==
    [n \in 1..Len(s) |-> IF n = k THEN s[k + 1] ELSE IF n = k + 1 THEN s[k] ELSE s[n]]

\* getHoldings is replaying or has replayed the ledger of accountId
Replaying == pc \in {"getHoldings", "getHoldingsReturned"}

\* C13: getHoldings processes the account's transactions in ascending date
\* order whatever order they are stored in, transactions of one date in their
\* storage insertion order, and a stored order that differs only in the
\* placement of transactions with distinct dates yields the same holdings:
\* exchanging two stored neighbours of different dates (every such reordering
\* is a series of these) leaves the list that is replayed, and so the
\* holdings, as they are.
C13_StableDateOrder ==
    /\ Replaying =>
          \A i, j \in 1..Len(sorted) :
              i < j => GetTime(sorted[i].date) <= GetTime(sorted[j].date)
    /\ (pc = "getHoldings" /\ idx = 1) =>
          /\ sorted = ByDate(Own, DatesOf(Own))
          /\ \A k \in 1..(Len(txStore) - 1) :
                txStore[k].date # txStore[k + 1].date =>
                    SortAsc(GetTransactions(Swapped(txStore, k), accountId))
                      = sorted
    /\ Replayed =>
          /\ sorted = SortAsc(GetTransactions(txStore, accountId))
          /\ holdings = ReplayAll(sorted)
          /\ result = Projection(holdings, realizedPnL, KeyOrder(sorted))

\* a ledger stored latest date first, with two different transactions on one
\* date, is replayed earliest date first and the two in their stored order
C13_Witness ==
    /\ Replayed
    /\ Len(Own) = 3
    /\ Own[1].date = Own[3].date
    /\ Own[1] # Own[3]
    /\ GetTime(Own[2].date) < GetTime(Own[1].date)
    /\ sorted = <<Own[2], Own[1], Own[3]>>
    /\ ReplayAll(<<Own[2], Own[3], Own[1]>>) # holdings

(***************************************************************************)
(* Properties of the two replays side by side (specification SpecCalls).   *)
(***************************************************************************)
\* the sequence both functions iterate: the account's transactions by
\* ascending date
Ledger == SortAsc(GetTransactions(txStore, activeAccount.id))

\* the sum of rp[sym] over the symbols syms
RECURSIVE SumRealized(_, _)
SumRealized(rp, syms) ==
    IF syms = {} THEN Zero
    ELSE LET sym == CHOOSE x \in syms : TRUE
         IN  Plus(rp[sym], SumRealized(rp, syms \ {sym}))

\* the sum of realizedPnL over the first n rows of a returned list
RECURSIVE SumRows(_, _)
SumRows(rows, n) ==
    IF n = 0 THEN Zero ELSE Plus(SumRows(rows, n - 1), rows[n].realizedPnL)

\* (quantity, totalCost, avgPrice) of a holding
Basis(h) == <<h.quantity, h.totalCost, h.avgPrice>>

InPeriodCall == pc \in {"calculatePeriodProfit", "calculatePeriodProfitReturned"}

\* the window of the running call takes in every transaction
WholeLedgerInWindow ==
    \A n \in 1..Len(sortedTxs) : InPeriod(sortedTxs[n], cutoff)

\* both functions iterate the same sorted sequence and after each of its
\* transactions the (quantity, totalCost, avgPrice) that calculatePeriodProfit
\* holds for every symbol is the one getHoldings holds
SameBasis ==
    /\ pc = "getHoldings" =>
          /\ sorted = Ledger
          /\ holdings = ReplayAll(SubSeq(Ledger, 1, idx - 1))
          /\ realizedPnL = ReplayedRealized(SubSeq(Ledger, 1, idx - 1))
    /\ InPeriodCall =>
          LET replay == ReplayAll(SubSeq(Ledger, 1, idx - 1))
          IN  /\ sortedTxs = Ledger
              /\ DOMAIN tempHoldings = DOMAIN replay
              /\ \A sym \in DOMAIN replay :
                    Basis(tempHoldings[sym]) = Basis(replay[sym])

\* C11 as stated: the same basis after each transaction, and when the window
\* takes in every date the total of the per-sale profits is exactly the sum
\* of realizedPnL over all symbols of the replay.
C11_AsStated ==
    /\ SameBasis
    /\ (PeriodReturned /\ WholeLedgerInWindow) =>
          LET rp == ReplayedRealized(Ledger)
          IN  /\ totalProfit = SumRealized(rp, DOMAIN rp)
              /\ returned.holdings # None =>
                    totalProfit = SumRows(Value(returned.holdings),
                                          Len(Value(returned.holdings)))

\* C11: the same basis after each transaction, and when the window takes in
\* every date the total of the per-sale profits is the sum of realizedPnL
\* over all symbols of the replay within the floating-point tolerance.
C11_SameRules ==
    /\ SameBasis
    /\ (PeriodReturned /\ WholeLedgerInWindow) =>
          LET rp == ReplayedRealized(Ledger)
          IN  /\ Near(totalProfit, SumRealized(rp, DOMAIN rp))
              /\ returned.holdings # None =>
                    Near(totalProfit, SumRows(Value(returned.holdings),
                                              Len(Value(returned.holdings))))

\* two symbols, one of them closed by its SELL and one oversold, all inside
\* the 12-month window, after getHoldings has returned its list
C11_Witness ==
    /\ PeriodReturned
    /\ months = 12
    /\ WholeLedgerInWindow
    /\ Len(sortedTxs) = 3
    /\ IsTrade(sortedTxs[1], "BUY", 10, 100)
    /\ sortedTxs[1].date = <<2026, 3, 10>>
    /\ \E n \in 2..3 :
         /\ IsTrade(sortedTxs[n], "SELL", 10, 150)
         /\ sortedTxs[n].symbol = sortedTxs[1].symbol
    /\ \E n \in 2..3 :
         /\ IsTrade(sortedTxs[n], "SELL", 4, 150)
         /\ sortedTxs[n].symbol # sortedTxs[1].symbol
    /\ returned.holdings # None
    /\ totalProfit = Num(1100)

\* C18: no division by a zero quantity occurs in the replay or in the period
\* calculator: every amount they hold is a finite number and avgPrice is 0,
\* not a quotient, whenever the quantity is not positive, also when a BUY
\* brings an oversold quantity back to exactly 0.
C18_NoDivisionByZero ==
    /\ \A sym \in DOMAIN holdings :
          /\ Finite(holdings[sym].totalCost)
          /\ Finite(holdings[sym].avgPrice)
          /\ Finite(realizedPnL[sym])
          /\ holdings[sym].quantity <= 0 => holdings[sym].avgPrice = Zero
    /\ \A sym \in DOMAIN tempHoldings :
          /\ Finite(tempHoldings[sym].totalCost)
          /\ Finite(tempHoldings[sym].avgPrice)
          /\ tempHoldings[sym].quantity <= 0 => tempHoldings[sym].avgPrice = Zero
    /\ Finite(totalProfit)
    /\ \A n \in 1..Len(result) : /\ Finite(result[n].totalCost)
                                /\ Finite(result[n].avgPrice)
                                /\ Finite(result[n].realizedPnL)

\* the period calculator has processed SELL 10 of a symbol never bought and
\* then a BUY 10 of it: the quantity is exactly 0
C18_Witness ==
    /\ pc = "calculatePeriodProfit"
    /\ idx = 3
    /\ sortedTxs[1].type = "SELL"
    /\ sortedTxs[2].type = "BUY"
    /\ sortedTxs[1].symbol = sortedTxs[2].symbol
    /\ sortedTxs[1].quantity = sortedTxs[2].quantity
    /\ tempHoldings[sortedTxs[1].symbol].quantity = 0
    /\ tempHoldings[sortedTxs[1].symbol].totalCost # Zero
    /\ returned.holdings # None

\* C19: getHoldings and calculatePeriodProfit leave the stored accounts and
\* transactions as they are and neither reorder nor modify the transaction
\* list they are given: the sort works on a copy.
C19_CallsArePure ==
    [][(pc # "idle" \/ pc' # "idle") =>
          /\ txStore' = txStore
          /\ accountStore' = accountStore
          /\ transactions' = transactions]_vars

\* calculatePeriodProfit is iterating a sorted list whose order differs from
\* the order of the list it was given, after getHoldings has run too
C19_Witness ==
    /\ pc = "calculatePeriodProfit"
    /\ Len(sortedTxs) = 3
    /\ idx = 2
    /\ sortedTxs # transactions
    /\ transactions = GetTransactions(txStore, activeAccount.id)
    /\ returned.holdings # None

\* C20: the value each call returns depends on the stored ledger, the window
\* and the clock only: getHoldings returns what it returned before, and
\* calculatePeriodProfit(1), (6) and (12) return what they returned before,
\* whatever calls ran in between; every call starts from empty accumulators.
C20_IndependentCalls ==
    /\ (pc = "getHoldings" /\ idx = 1) =>
          holdings = EmptyMap /\ realizedPnL = EmptyMap
    /\ (pc = "calculatePeriodProfit" /\ idx = 1) =>
          tempHoldings = EmptyMap /\ totalProfit = Zero
    /\ Replayed =>
          /\ result = Projection(ReplayAll(Ledger), ReplayedRealized(Ledger),
                                 KeyOrder(Ledger))
          /\ returned.holdings # None => result = Value(returned.holdings)
    /\ PeriodReturned =>
          /\ totalProfit = SaleProfits(Ledger, Len(Ledger), Cutoff(clock, months))
          /\ returned.profit[months] # None =>
                totalProfit = Value(returned.profit[months])

\* calculatePeriodProfit(1) returns again what it returned before, after
\* calculatePeriodProfit(12) returned another value and getHoldings ran
C20_Witness ==
    /\ PeriodReturned
    /\ months = 1
    /\ returned.profit[1] = Some(totalProfit)
    /\ returned.profit[12] # None
    /\ returned.profit[12] # Some(totalProfit)
    /\ returned.holdings # None
    /\ totalProfit # Zero

(***************************************************************************)
(* Properties of the input validation (specification SpecIngest).          *)
(***************************************************************************)
\* the forEach iteration of getHoldings that processes a transaction whose
\* type is neither BUY nor SELL
StepOnUnknownType ==
    /\ pc = "getHoldings"
    /\ idx <= Len(sorted)
    /\ idx' = idx + 1
    /\ sorted[idx].type \notin {"BUY", "SELL"}

\* C14: a transaction whose type is outside {BUY, SELL} never changes any
\* holding state: addTransaction does not store it, or the replay stops on it
\* with an error; it is not processed as a BUY or a SELL.
C14_AsStated ==
    [][StepOnUnknownType =>
          /\ Basis(After) = Basis(Before)
          /\ realizedPnL'[sorted[idx].symbol] =
               RealizedOf(realizedPnL, sorted[idx].symbol)]_vars

(***************************************************************************)
(* Properties of fetchStockPrices (specification SpecFetch).               *)
(***************************************************************************)
\* the positions of the answered array that hold an entry with a non-empty
\* string symbol and a numeric price
ValidAt(items) ==
    {n \in 1..Len(items) : Accepted(items[n]) /\ items[n].symbol[1] = "string"}

\* the text is one JSON array, alone or in a markdown block
Parsed(outcome) == outcome.kind \in {"array", "fenced"}

\* the text holds no JSON at all
NoJson(outcome) == outcome.kind \in {"empty", "prose"}

FiniteRow(h) ==
    /\ Finite(h.totalCost)
    /\ Finite(h.avgPrice)
    /\ Finite(h.realizedPnL)

ResumeStep == Len(pending') < Len(pending)

\* the symbols asked for that the map just returned has no price for
WithoutFreshPrice ==
    {fetch'.symbols[n] : n \in 1..Len(fetch'.symbols)} \ DOMAIN fetch'.value

\* C16: when fetchStockPrices returns an empty or a partial map, every symbol
\* without a fresh price is valued at its last-known price or at avgPrice,
\* fetchError is set, and the refresh completes: holdings and transactions
\* are those of the store and isRefreshing is false.
C16_AsStated ==
    [][(ResumeStep /\ WithoutFreshPrice # {}) =>
          /\ fetchError' # "null"
          /\ isRefreshing' = FALSE
          /\ appHoldings' = GetHoldings(txStore, activeAccount.id)
          /\ transactions' = GetTransactions(txStore, activeAccount.id)
          /\ \A n \in 1..Len(appHoldings') :
                LET h == appHoldings'[n]
                IN  h.symbol \in WithoutFreshPrice =>
                      \/ CurrentPrice(h, prices') = h.avgPrice
                      \/ /\ h.symbol \in DOMAIN prices
                         /\ CurrentPrice(h, prices') = Num(prices[h.symbol].price)]_vars

(***************************************************************************)
(* Properties of the cost basis (specification Spec).                      *)
(***************************************************************************)
\* C23: in every state of the replay a symbol whose quantity is <= 0 has
\* totalCost = 0, also after a BUY that follows an oversell and does not
\* bring the quantity above 0.
C23_AsStated ==
    \A sym \in DOMAIN holdings :
        holdings[sym].quantity <= 0 => holdings[sym].totalCost = Zero

\* the prices of the BUYs of sym among the transactions processed so far
BuyPrices(sym) ==
    {sorted[n].price : n \in {m \in 1..(idx - 1) :
                                sorted[m].symbol = sym /\ sorted[m].type = "BUY"}}

\* C24: after any transaction of any ledger a symbol with quantity > 0 has
\* avgPrice between the lowest and the highest price of the BUYs of that
\* symbol processed so far, also in ledgers with an oversell followed by buys.
C24_AsStated ==
    Replaying =>
        \A sym \in DOMAIN holdings :
            holdings[sym].quantity > 0 =>
                /\ \E p \in BuyPrices(sym) : AtMost(p, holdings[sym].avgPrice)
                /\ \E p \in BuyPrices(sym) : AtMost(holdings[sym].avgPrice, p)

(***************************************************************************)
(* An account without transactions (specification SpecView).               *)
(***************************************************************************)
\* the store holds no transaction of the account id
NoTransactionsOf(id) == \A n \in 1..Len(txStore) : txStore[n].account_id # id

\* C21: for an account with zero transactions getHoldings returns the empty
\* list and calculatePeriodProfit returns 0 for the windows of 1, 6 and 12
\* months, whatever the other accounts hold.
C21_EmptyAccount ==
    NoTransactionsOf(activeAccount.id) =>
        /\ pc = "getHoldingsReturned" => result = <<>>
        /\ pc = "calculatePeriodProfitReturned" => totalProfit = Zero
        /\ returned.holdings \in {None, Some(<<>>)}
        /\ \A m \in Windows : returned.profit[m] \in {None, Some(Zero)}

\* every call has returned for an account without transactions while the
\* other account has sold at a profit
C21_Witness ==
    /\ NoTransactionsOf(activeAccount.id)
    /\ \E n \in 1..Len(txStore) : txStore[n].type = "SELL"
    /\ \E n \in 1..Len(txStore) : txStore[n].type = "BUY"
    /\ returned.holdings = Some(<<>>)
    /\ \A m \in Windows : returned.profit[m] = Some(Zero)

(***************************************************************************)
(* The server replay and the client replay (specification SpecServer).     *)
(***************************************************************************)
\* the rows s are in chronological order
InDateOrder(s) ==
    \A m, n \in 1..Len(s) : m < n => GetTime(s[m].date) <= GetTime(s[n].date)

\* no SELL of s is of more units than the quantity tracked when it is reached
NoOversell(s) ==
    \A n \in 1..Len(s) :
        s[n].type # "BUY" =>
            s[n].quantity
              <= HoldingOf(ReplayAll(SubSeq(s, 1, n - 1)), s[n].symbol).quantity

\* the symbols of the rows of a response
Projected(rows) == {rows[n].symbol : n \in 1..Len(rows)}

\* the server answers a request for the holdings of the account id
ServerAnswers(id) ==
    /\ response' # None
    /\ Value(response').route = "GET /api/holdings/:accountId"
    /\ Value(response').param = id

\* C25 as stated: for every ledger in chronological order in which no SELL
\* exceeds the tracked quantity, the server replay and storage.getHoldings
\* give the same quantity, totalCost and realizedPnL for every symbol, the
\* same avgPrice for every symbol with quantity > 0, and project the same
\* symbols.
C25_AsStated ==
    [][\A id \in ServerAccountIds :
          LET rows   == ServerRows(db.transactions, id)
              s      == SortAsc(GetTransactions(db.transactions, id))
              client == ReplayAll(s)
              gains  == ReplayedRealized(s)
              server == ServerReplayAll(rows)
              sgains == ServerReplayedRealized(rows)
          IN  ServerAnswers(id) /\ InDateOrder(rows) /\ NoOversell(rows) =>
                /\ DOMAIN server = DOMAIN client
                /\ \A sym \in DOMAIN client :
                      /\ server[sym].quantity = client[sym].quantity
                      /\ server[sym].totalCost = client[sym].totalCost
                      /\ sgains[sym] = gains[sym]
                      /\ client[sym].quantity > 0 =>
                            server[sym].avgPrice = client[sym].avgPrice
                /\ Projected(Value(response').body)
                      = Projected(GetHoldings(db.transactions, id))]_vars

\* the rows a and b have the same symbols and quantities in the same order,
\* and amounts that are equal within the tolerance
RowsAgree(a, b) ==
    /\ Len(a) = Len(b)
    /\ \A n \in 1..Len(a) :
          /\ a[n].symbol = b[n].symbol
          /\ a[n].quantity = b[n].quantity
          /\ Near(a[n].totalCost, b[n].totalCost)
          /\ Near(a[n].realizedPnL, b[n].realizedPnL)
          /\ a[n].quantity > 0 => Near(a[n].avgPrice, b[n].avgPrice)

\* the rows of a for the symbols that b has rows for
CommonRows(a, b) == SelectSeq(a, LAMBDA r : r.symbol \in Projected(b))

\* C25: for every ledger in chronological order in which no SELL exceeds
\* the tracked quantity, the server replay and storage.getHoldings give the
\* same quantity for every symbol, a totalCost and a realizedPnL that are
\* equal within the floating-point tolerance, and an avgPrice equal within
\* the tolerance for every symbol with quantity > 0; a symbol that one of
\* them projects and the other does not is a closed position whose
\* realizedPnL is 0 within the tolerance on both sides, and the rows of the
\* symbols both project agree.
C25_ServerAgrees ==
    [][\A id \in ServerAccountIds :
          LET rows   == ServerRows(db.transactions, id)
              s      == SortAsc(GetTransactions(db.transactions, id))
              client == ReplayAll(s)
              gains  == ReplayedRealized(s)
              server == ServerReplayAll(rows)
              sgains == ServerReplayedRealized(rows)
              shown  == GetHoldings(db.transactions, id)
              answer == Value(response').body
          IN  ServerAnswers(id) /\ InDateOrder(rows) /\ NoOversell(rows) =>
                /\ DOMAIN server = DOMAIN client
                /\ \A sym \in DOMAIN client :
                      /\ server[sym].quantity = client[sym].quantity
                      /\ Near(server[sym].totalCost, client[sym].totalCost)
                      /\ Near(sgains[sym], gains[sym])
                      /\ client[sym].quantity > 0 =>
                            Near(server[sym].avgPrice, client[sym].avgPrice)
                /\ \A sym \in DOMAIN client :
                      (sym \in Projected(answer)) # (sym \in Projected(shown)) =>
                            /\ client[sym].quantity = 0
                            /\ Near(gains[sym], Zero)
                            /\ Near(sgains[sym], Zero)
                /\ RowsAgree(CommonRows(answer, shown),
                             CommonRows(shown, answer))]_vars

\* the server has answered for a ledger in date order without oversell in
\* which a position was closed and opened again: the client has reset its
\* cost basis where the server kept a rounded rest, and after the second
\* close the client shows a row for the symbol and the server shows none
C25_Witness ==
    /\ response # None
    /\ Value(response).route = "GET /api/holdings/:accountId"
    /\ Value(response).param = 1
    /\ LET rows == ServerRows(db.transactions, 1)
       IN  /\ InDateOrder(rows)
           /\ NoOversell(rows)
           /\ Len(rows) = 5
           /\ rows[3].type = "SELL"
           /\ ReplayAll(SubSeq(rows, 1, 3))["TCS"].totalCost = Zero
           /\ ServerReplayAll(SubSeq(rows, 1, 3))["TCS"].totalCost # Zero
           /\ rows[4].type = "BUY"
           /\ Value(response).body
                = JsonHoldings(ServerGetHoldings(db.transactions, 1))
           /\ Value(response).body = <<>>
           /\ Projected(GetHoldings(db.transactions, 1)) = {"TCS"}

(***************************************************************************)
(* Overlapping refreshes (specification SpecOverlap).                      *)
(***************************************************************************)
\* C26: while any refreshData call is still awaiting fetchStockPrices,
\* isRefreshing is true; it becomes false only when no refresh is in flight,
\* for every interleaving of overlapping refreshes.
C26_AsStated == pending # <<>> => isRefreshing

\* C27: when several refreshData calls overlap and their price fetches
\* complete in any order, once all have completed with non-empty results the
\* price map is the result of the most recently started refresh and holds a
\* price for every returned symbol of the displayed holdings; a late response
\* of an older refresh never replaces it.
C27_AsStated ==
    (pending = <<>> /\ appHoldings # <<>> /\ log.newest # None /\ ~log.empty) =>
        /\ prices = Value(log.newest)
        /\ \A n \in 1..Len(appHoldings) :
              appHoldings[n].symbol \in DOMAIN Value(log.newest) =>
                  appHoldings[n].symbol \in DOMAIN prices

(***************************************************************************)
(* Properties of storage (specification SpecStorage).                      *)
(***************************************************************************)
\* C22: after any sequence of addTransaction and deleteTransaction calls the
\* stored transactions have pairwise distinct ids, also when two additions
\* happen without Date.now() advancing between them.
C22_AsStated ==
    \A m, n \in 1..Len(txStore) : m # n => txStore[m].id # txStore[n].id

\* the accounts of the list s whose id is not id, in the order of s
OtherAccounts(s, id) == SelectSeq(s, LAMBDA a : a.id # id)

\* the transactions of the list s that belong to the account id
RowsOfAccount(s, id) == SelectSeq(s, LAMBDA t : t.account_id = id)

\* storage.deleteAccount(id) removes an account in this step
DeleteAccountStep(id) ==
    /\ Len(accountStore') < Len(accountStore)
    /\ id \in IdsOf(accountStore) \ IdsOf(accountStore')

\* C29: storage.deleteAccount(id) removes exactly the account with that id
\* and exactly the transactions whose account_id is id; every other account
\* and every transaction of every other account is left unchanged, so
\* getHoldings of the other accounts is the same before and after.
C29_DeleteAccountExact ==
    [][\A id \in IdsOf(accountStore) :
          DeleteAccountStep(id) =>
            /\ \A n \in 1..Len(accountStore') : accountStore'[n].id # id
            /\ accountStore' = OtherAccounts(accountStore, id)
            /\ RowsOfAccount(txStore', id) = <<>>
            /\ Len(txStore') = Len(txStore) - Len(RowsOfAccount(txStore, id))
            /\ \A a \in IdsOf(accountStore) \ {id} :
                  /\ RowsOfAccount(txStore', a) = RowsOfAccount(txStore, a)
                  /\ GetTransactions(txStore', a) = GetTransactions(txStore, a)
                  /\ GetHoldings(txStore', a) = GetHoldings(txStore, a)]_vars

\* account 1 has been deleted and nothing of it is left, while account 2
\* still has its transactions
C29_Witness ==
    /\ 1 \notin IdsOf(accountStore)
    /\ 2 \in IdsOf(accountStore)
    /\ Len(txStore) >= 2
    /\ \A n \in 1..Len(txStore) : txStore[n].account_id = 2

\* storage.addTransaction adds a transaction to the account b in this step
AddStep(b) ==
    /\ Len(txStore') = Len(txStore) + 1
    /\ Last(txStore').account_id = b

\* storage.deleteTransaction is called in this step with the id of a
\* transaction that was added to the account b
DeleteStep(b) ==
    /\ accountStore' = accountStore
    /\ \E n \in 1..Len(txStore) :
          /\ txStore[n].account_id = b
          /\ txStore' = DeleteTransaction(txStore, txStore[n].id)

\* C30: adding a transaction to account B, or deleting by id a transaction
\* that was added to account B, leaves the transactions and the holdings of
\* every other account A unchanged, also when additions were made to
\* different accounts without the clock advancing.
C30_AsStated ==
    [][\A b \in IdsOf(accountStore) :
          (AddStep(b) \/ DeleteStep(b)) =>
             \A a \in IdsOf(accountStore) \ {b} :
                /\ GetTransactions(txStore', a) = GetTransactions(txStore, a)
                /\ GetHoldings(txStore', a) = GetHoldings(txStore, a)]_vars

(***************************************************************************)
(* Properties of the account handlers (specification SpecAccounts).        *)
(***************************************************************************)
\* C28: after any sequence of handleCreateAccount, handleRenameAccount and
\* handleDeleteAccount from the initial accounts, the account list is never
\* empty and activeAccount is always an account of the current list.
C28_AsStated ==
    /\ accounts # <<>>
    /\ \E n \in 1..Len(accounts) : accounts[n] = activeAccount

====
